---- MODULE Spec2Model ----
(***************************************************************************)
(* AnalogCore (simulator/cores/analog_core.py): the partition planner of   *)
(* __init__, set_matrix / get_matrix, the four multiply orientations, and  *)
(* the index normalisation behind __getitem__ / __setitem__.               *)
(*                                                                         *)
(* Conventions.  Python containers are 0-based, so vectors and matrices    *)
(* are functions over 0..n-1.  A logical matrix is a record                *)
(* [nr, nc, re, im, cplx]: re and im are integer matrices and cplx is the  *)
(* dtype being complex.  An optional value (None or an int) is the empty   *)
(* sequence or a one-element sequence.  The physical cores are external    *)
(* collaborators; they are modelled as ideal cells that store the block    *)
(* they are given and multiply by it exactly.                              *)
(***************************************************************************)
EXTENDS Integers, Sequences, FiniteSets, TLC

VARIABLES
    pc,             \* "new" before __init__, "ready" after it, "raised" if it raised
    err,            \* exception raised by the last call, "none" if it completed
    params,         \* the configuration read by __init__ and set_matrix
    shape,          \* self.shape, the logical <<rows, cols>>
    nrow,           \* self.nrow, encoded row count
    ncol,           \* self.ncol, encoded column count
    Ncores,         \* self.Ncores
    num_cores_row,  \* self.num_cores_row
    num_cores_col,  \* self.num_cores_col
    NrowsVec,       \* self.NrowsVec
    NcolsVec,       \* self.NcolsVec
    cores,          \* self.cores: what each grid cell was last programmed with
    wmin,           \* self.min
    wmax,           \* self.max
    dtype,          \* self.dtype: "unset", "real" or "complex"
    programmed,     \* the matrix last accepted by set_matrix (history)
    writes,         \* number of writes made after construction
    call            \* the last call: operation, arguments, result

vars == <<pc, err, params, shape, nrow, ncol, Ncores, num_cores_row,
          num_cores_col, NrowsVec, NcolsVec, cores, wmin, wmax, dtype,
          programmed, writes, call>>

(***************************************************************************)
(* Bounds of the model.                                                    *)
(***************************************************************************)
MaxPlanDim == 5
MaxCoreDim == 3
MaxDim == 4
MaxSeed == 2
MaxWrites == 1
MaxList == 4
MaxSeqWrites == 2

(***************************************************************************)
(* Small helpers: optionals, vectors, matrices.                            *)
(***************************************************************************)
None == <<>>
Some(v) == <<v>>
IsNone(o) == o = <<>>
Val(o) == o[1]

Min2(a, b) == IF a < b THEN a ELSE b
Max2(a, b) == IF a > b THEN a ELSE b

RECURSIVE SumTo(_, _)
\* np.sum(v[:k]) for a 0-based vector v
SumTo(v, k) == IF k <= 0 THEN 0 ELSE SumTo(v, k - 1) + v[k - 1]

RECURSIVE SumF(_, _, _)
\* sum of f[i] for i in lo..hi-1
SumF(f, lo, hi) == IF lo >= hi THEN 0 ELSE f[lo] + SumF(f, lo + 1, hi)

ZeroMat(nr, nc) == [i \in 0..nr-1 |-> [j \in 0..nc-1 |-> 0]]
NegMat(m, nr, nc) == [i \in 0..nr-1 |-> [j \in 0..nc-1 |-> 0 - m[i][j]]]
\* m[r0:r1, c0:c1]
Block(m, r0, r1, c0, c1) ==
    [i \in 0..(r1-r0-1) |-> [j \in 0..(c1-c0-1) |-> m[r0+i][c0+j]]]

(***************************************************************************)
(* Partition planner, AnalogCore.__init__ lines 126-261.                   *)
(***************************************************************************)
PartitionStrategies == {"MAX", "EVEN"}

\* lines 128-131: rows and columns are doubled for a complex instance
complex_valued(p) == p.complex_matrix \/ p.complex_input
EncDim(p, n) == IF complex_valued(p) THEN 2 * n ELSE n

\* lines 136-144
NcoresOf(nr, nc, NrowsMax, NcolsMax) ==
    (IF NrowsMax > 0 THEN (nc - 1) \div NrowsMax + 1 ELSE 1)
  * (IF NcolsMax > 0 THEN (nr - 1) \div NcolsMax + 1 ELSE 1)

\* np.round(a / b).astype(np.int32): numpy rounds halves to the even integer
RoundHalfEven(a, b) ==
    LET q == a \div b
        r == a % b
    IN  IF 2 * r < b THEN q
        ELSE IF 2 * r > b THEN q + 1
        ELSE IF q % 2 = 0 THEN q ELSE q + 1

\* PartitionVec without the remainder going to the last partition
PartitionVec_mut(n, count, per_core) == [k \in 0..count-1 |-> per_core]

\* lines 219-223 and 246-250: per_core * ones(count), last entry absorbs the rest
PartitionVec(n, count, per_core) ==
    [k \in 0..count-1 |->
        IF k = count - 1 THEN n - (count - 1) * per_core ELSE per_core]

\* lines 200-203 and 226-229
EvenVec(n, count) == [k \in 0..count-1 |-> n \div count]

\* lines 211-218 and 237-244: the size of all partitions but the last
PerCore(n, count, maxdim, strategy) ==
    IF strategy = "MAX" THEN maxdim ELSE RoundHalfEven(n, count)

\* lines 199-223.  The priority test reads self.NcolsMax, an attribute that is
\* never assigned (NcolsMax is a local of __init__): evaluating it for the
\* first divisor raises AttributeError.  With an empty priority list the
\* generator body is never evaluated and prio_partition is False.
RowsOutcome(nr, count, NcolsMax, prio, strategy) ==
    IF nr % count = 0
      THEN [err |-> "none", vec |-> EvenVec(nr, count)]
    ELSE IF prio # <<>>
      THEN [err |-> "AttributeError", vec |-> <<>>]
    ELSE [err |-> "none",
          vec |-> PartitionVec(nr, count, PerCore(nr, count, NcolsMax, strategy))]

\* lines 225-250, the same for the columns with self.NrowsMax
ColsOutcome(nc, count, NrowsMax, prio, strategy) ==
    IF nc % count = 0
      THEN [err |-> "none", vec |-> EvenVec(nc, count)]
    ELSE IF prio # <<>>
      THEN [err |-> "AttributeError", vec |-> <<>>]
    ELSE [err |-> "none",
          vec |-> PartitionVec(nc, count, PerCore(nc, count, NrowsMax, strategy))]

\* lines 254-261: (index, start, end) triples
PartitionBounds(vec, count) ==
    [k \in 0..count-1 |-> <<k, SumTo(vec, k), SumTo(vec, k + 1)>>]

NoPlan == [err |-> "none", nrow |-> 0, ncol |-> 0, Ncores |-> 0,
           num_cores_row |-> 0, num_cores_col |-> 0,
           NrowsVec |-> <<>>, NcolsVec |-> <<>>]

\* lines 98-261: the plan __init__ computes, or the exception it raises
Plan(p, shp) ==
    LET nr == EncDim(p, shp[1])
        nc == EncDim(p, shp[2])
        NrowsMax == p.rows_max
        NcolsMax == p.cols_max
        N == NcoresOf(nr, nc, NrowsMax, NcolsMax)
        base == [NoPlan EXCEPT !.nrow = nr, !.ncol = nc, !.Ncores = N]
    IN  IF shp[1] = 1 \/ shp[2] = 1
          THEN [NoPlan EXCEPT !.err = "ValueError"]
        ELSE IF N = 1
          THEN [base EXCEPT !.num_cores_row = 1, !.num_cores_col = 1,
                            !.NrowsVec = [k \in 0..0 |-> nr],
                            !.NcolsVec = [k \in 0..0 |-> nc]]
        ELSE IF NrowsMax = 0
          THEN [base EXCEPT !.err = "ZeroDivisionError"]
        ELSE
          LET ncr == N \div ((nc - 1) \div NrowsMax + 1)
              ncc == N \div ncr
              ro == RowsOutcome(nr, ncr, NcolsMax, p.row_partition_priority,
                                p.row_partition_strategy)
              co == ColsOutcome(nc, ncc, NrowsMax, p.col_partition_priority,
                                p.col_partition_strategy)
              sized == [base EXCEPT !.num_cores_row = ncr, !.num_cores_col = ncc]
          IN  IF ro.err # "none" THEN [sized EXCEPT !.err = ro.err]
              ELSE IF co.err # "none"
                THEN [sized EXCEPT !.err = co.err, !.NrowsVec = ro.vec]
              ELSE [sized EXCEPT !.NrowsVec = ro.vec, !.NcolsVec = co.vec]

\* lines 147-158: params is one object (plist = None) or a list of Val(plist)
\* objects; the check of the list against Ncores
ParamsCheck(plist, N) ==
    IF N = 1 /\ ~IsNone(plist) THEN "ValueError"
    ELSE IF N > 1 /\ ~IsNone(plist) /\ Val(plist) # N THEN "ValueError"
    ELSE "none"

\* lines 81-261 for params given as an object or as a list: line 84 reads
\* params[0], which raises IndexError on an empty list
ListPlan(p, shp, plist) ==
    IF plist = Some(0) THEN [NoPlan EXCEPT !.err = "IndexError"]
    ELSE
      LET pl == Plan(p, shp)
      IN  IF shp[1] = 1 \/ shp[2] = 1 THEN pl
          ELSE IF ParamsCheck(plist, pl.Ncores) # "none"
            THEN [NoPlan EXCEPT !.err = "ValueError", !.nrow = pl.nrow,
                                !.ncol = pl.ncol, !.Ncores = pl.Ncores]
          ELSE pl

\* the number of _make_core calls (lines 176 and 188) made before __init__
\* returns or raises with plan pl
MadeCores(pl) ==
    IF pl.err \in {"IndexError", "ValueError", "ZeroDivisionError"} THEN 0
    ELSE IF pl.Ncores = 1 THEN 1
    ELSE pl.num_cores_row * pl.num_cores_col

\* line 188: the index of the params list entry that cell (r, c) is built from
ParamsIndex(r, c) == r * c

\* lines 185-190: the entry picked for every cell of the grid of plan pl
PickedParams(pl) ==
    IF MadeCores(pl) = 0 \/ pl.Ncores = 1 THEN <<>>
    ELSE [r \in 0..pl.num_cores_row-1 |-> [c \in 0..pl.num_cores_col-1 |->
            ParamsIndex(r, c)]]

row_partition_bounds == PartitionBounds(NrowsVec, num_cores_row)
col_partition_bounds == PartitionBounds(NcolsVec, num_cores_col)

(***************************************************************************)
(* Python slices.  A slice is a record [start, stop, step] of optionals;   *)
(* an index component is an int or a slice.                                *)
(***************************************************************************)
Slice(a, b, c) == [start |-> a, stop |-> b, step |-> c]
IntItem(v) == [kind |-> "int", v |-> v, s |-> Slice(None, None, None)]
SliceItem(s) == [kind |-> "slice", v |-> 0, s |-> s]

\* slice.indices(length) of CPython: the (start, stop, step) triple
SliceIndices(s, length) ==
    LET step == IF IsNone(s.step) THEN 1 ELSE Val(s.step)
        lower == IF step < 0 THEN 0 - 1 ELSE 0
        upper == IF step < 0 THEN length - 1 ELSE length
        clampIdx(o, dflt) ==
            IF IsNone(o) THEN dflt
            ELSE IF Val(o) < 0 THEN Max2(Val(o) + length, lower)
            ELSE Min2(Val(o), upper)
    IN  <<clampIdx(s.start, IF step < 0 THEN upper ELSE lower),
          clampIdx(s.stop, IF step < 0 THEN lower ELSE upper),
          step>>

\* slice(*t) for a triple of ints
SliceOf(t) == Slice(Some(t[1]), Some(t[2]), Some(t[3]))

\* len(range(start, stop, step))
RangeLen(t) ==
    IF t[3] > 0
      THEN (IF t[2] > t[1] THEN (t[2] - t[1] + t[3] - 1) \div t[3] ELSE 0)
      ELSE (IF t[1] > t[2] THEN (t[1] - t[2] - t[3] - 1) \div (0 - t[3]) ELSE 0)

\* range(start, stop, step) as a 0-based vector
RangeVec(t) == [k \in 0..RangeLen(t)-1 |-> t[1] + k * t[3]]

\* the indices a[s] selects on an axis of the given length, in order
Selected(s, length) == RangeVec(SliceIndices(s, length))
SelLen(s, length) == RangeLen(SliceIndices(s, length))
SelSet(s, length) == {Selected(s, length)[k] : k \in 0..SelLen(s, length)-1}

(***************************************************************************)
(* AnalogCore._create_mask, lines 815-881.                                 *)
(***************************************************************************)
\* lines 848-856 and 866-874: one component to a slice
NormSlice(it, length) ==
    IF it.kind = "int"
      THEN (IF it.v < 0 THEN Slice(Some(length + it.v), Some(length + it.v + 1), None)
                        ELSE Slice(Some(it.v), Some(it.v + 1), None))
      ELSE LET t == SliceIndices(it.s, length)
           IN  IF t[3] < 0 THEN Slice(Some(t[1]), None, Some(t[3])) ELSE SliceOf(t)

\* CoversAxis without the test on the sign of the step
CoversAxis_mut(s, length) == SelLen(s, length) = length

\* lines 858-861 and 876-879: does the normalised slice cover the axis
CoversAxis(s, length) ==
    SelLen(s, length) = length /\ Val(s.step) > 0

\* item is [tuple |-> BOOLEAN, items |-> sequence of components]; shp is the
\* shape of the object indexed (ndim = 2)
create_mask(item, shp) ==
    LET items == IF item.tuple THEN item.items
                 ELSE <<item.items[1], SliceItem(Slice(None, None, None))>>
        bad == [err |-> "ValueError", rslice |-> Slice(None, None, None),
                cslice |-> Slice(None, None, None), full_mask |-> FALSE,
                flatten |-> FALSE]
    IN  IF Len(items) # 2 THEN bad
        ELSE
          LET rs == NormSlice(items[1], shp[1])
              cs == NormSlice(items[2], shp[2])
              rfull == IF items[1].kind = "int" THEN FALSE
                       ELSE CoversAxis(rs, shp[1])
              \* line 876 also runs for an integer column, whose step is None:
              \* `None > 0` is only evaluated when the length test passes
              ctype == items[2].kind = "int" /\ SelLen(cs, shp[2]) = shp[2]
              cfull == IF items[2].kind = "int" THEN FALSE
                       ELSE CoversAxis(cs, shp[2])
          IN  IF ctype THEN [bad EXCEPT !.err = "TypeError"]
              ELSE [err |-> "none", rslice |-> rs, cslice |-> cs,
                    full_mask |-> rfull /\ cfull,
                    flatten |-> items[1].kind = "int" \/ items[2].kind = "int"]

(***************************************************************************)
(* Logical matrices and the complex encoding, set_matrix lines 332-343 and *)
(* get_matrix lines 461-467.                                               *)
(***************************************************************************)
LMat(nr, nc, re, im, cplx) == [nr |-> nr, nc |-> nc, re |-> re, im |-> im, cplx |-> cplx]
RealMat(nr, nc, re) == LMat(nr, nc, re, ZeroMat(nr, nc), FALSE)

\* lines 333-343: the quadrants [[Re, -Im], [Im, Re]], or a plain copy
Encode(cv, M) ==
    IF cv
      THEN [i \in 0..2*M.nr-1 |-> [j \in 0..2*M.nc-1 |->
              IF i < M.nr /\ j < M.nc THEN M.re[i][j]
              ELSE IF i >= M.nr /\ j < M.nc THEN M.im[i - M.nr][j]
              ELSE IF i < M.nr /\ j >= M.nc THEN 0 - M.im[i][j - M.nc]
              ELSE M.re[i - M.nr][j - M.nc]]]
      ELSE M.re

\* Decode reading the imaginary part from the top-right quadrant
Decode_mut(cv, m, enr, enc) ==
    IF cv
      THEN LET Nx == enr \div 2
               Ny == enc \div 2
           IN  LMat(Nx, Ny, Block(m, 0, Nx, 0, Ny), Block(m, 0, Nx, Ny, enc), TRUE)
      ELSE RealMat(enr, enc, m)

\* lines 461-467: top-left + 1j * bottom-left, or the matrix itself
Decode(cv, m, enr, enc) ==
    IF cv
      THEN LET Nx == enr \div 2
               Ny == enc \div 2
           IN  LMat(Nx, Ny, Block(m, 0, Nx, 0, Ny), Block(m, Nx, enr, 0, Ny), TRUE)
      ELSE RealMat(enr, enc, m)

Entries(m, nr, nc) == {m[i][j] : i \in 0..nr-1, j \in 0..nc-1}
SetMax(S) == CHOOSE x \in S : \A y \in S : y <= x
SetMin(S) == CHOOSE x \in S : \A y \in S : x <= y
Abs(x) == IF x < 0 THEN 0 - x ELSE x

\* ndarray.clip(lo, hi)
Clip(m, nr, nc, lo, hi) ==
    [i \in 0..nr-1 |-> [j \in 0..nc-1 |-> Max2(lo, Min2(hi, m[i][j]))]]

\* _set_limits_percentile, lines 893-912, for percentile >= 1.0 and reset=True.
\* The widening by eps of a zero range is not representable over the
\* integers; no matrix programmed here is all zero.
set_limits_percentile(pct, m, nr, nc) ==
    LET X_max == pct * SetMax({Abs(x) : x \in Entries(m, nr, nc)})
    IN  <<0 - X_max, X_max>>

(***************************************************************************)
(* The ideal physical core: it stores the block it is programmed with,     *)
(* together with the limits and the mask it was handed.                    *)
(***************************************************************************)
Cell(m, wl, em) == [matrix |-> m, weight_limits |-> wl, error_mask |-> em]
core_set_matrix(m, wl, em) == Cell(m, wl, em)
read_matrix(cell) == cell.matrix

(***************************************************************************)
(* AnalogCore.set_matrix, lines 316-437.                                   *)
(***************************************************************************)
\* lines 402-426: a mask slice moved into the coordinates of a cell starting
\* at cell_start
ShiftMask(m, cell_start) ==
    IF ~IsNone(m.step) /\ Val(m.step) < 0
      THEN Slice(Some(Val(m.start) - cell_start), None, m.step)
      ELSE Slice(Some(Val(m.start) - cell_start), Some(Val(m.stop) - cell_start), m.step)

\* lines 428-431: slice(*mask.indices(cell size))
LocalMask(m, cell_start, cell_end) ==
    SliceOf(SliceIndices(ShiftMask(m, cell_start), cell_end - cell_start))

\* lines 391-437: program every cell with its block
Dispatch(self, mcopy, weight_limits, error_mask) ==
    IF self.Ncores = 1
      THEN [r \in 0..0 |-> [c \in 0..0 |->
              core_set_matrix(mcopy, weight_limits, error_mask)]]
      ELSE
        LET rb == PartitionBounds(self.NrowsVec, self.num_cores_row)
            cb == PartitionBounds(self.NcolsVec, self.num_cores_col)
        IN  [r \in 0..self.num_cores_row-1 |-> [c \in 0..self.num_cores_col-1 |->
              core_set_matrix(
                Block(mcopy, rb[r][2], rb[r][3], cb[c][2], cb[c][3]),
                weight_limits,
                IF IsNone(error_mask) THEN None
                ELSE <<LocalMask(error_mask[1], rb[r][2], rb[r][3]),
                       LocalMask(error_mask[2], cb[c][2], cb[c][3])>>)]]

\* lines 366-377: the limits a full write establishes
FullLimits(p, mcopy, enr, enc) ==
    IF ~IsNone(p.weights_percentile) /\ Val(p.weights_percentile) # 0
      THEN set_limits_percentile(Val(p.weights_percentile), mcopy, enr, enc)
      ELSE <<p.weights_min, p.weights_max>>

\* lines 348-359: does a partial update warn.  np.max / np.min of a complex
\* matrix order by the real part first.
RangeWarning(self, matrix) ==
    \/ SetMax(Entries(matrix.re, matrix.nr, matrix.nc)) > self.wmax
    \/ SetMin(Entries(matrix.re, matrix.nr, matrix.nc)) < self.wmin

\* set_matrix with self.dtype assigned before the dtype validation
set_matrix_mut(self, matrix, error_mask) ==
    LET cv == complex_valued(self.params)
        unchanged == [err |-> "none", cores |-> self.cores, wmin |-> self.wmin,
                      wmax |-> self.wmax, dtype |-> self.dtype, warned |-> FALSE]
    IN  IF self.shape # <<matrix.nr, matrix.nc>>
          THEN [unchanged EXCEPT !.err = "ValueError"]
        ELSE IF matrix.cplx /\ ~cv
          THEN [unchanged EXCEPT !.err = "ValueError", !.dtype = "complex"]
        ELSE
          LET mcopy == Encode(cv, matrix)
              partial == ~IsNone(error_mask)
              limits == IF partial THEN <<self.wmin, self.wmax>>
                        ELSE FullLimits(self.params, mcopy, self.nrow, self.ncol)
              clipped == IF self.params.weight_clipping
                           THEN Clip(mcopy, self.nrow, self.ncol, limits[1], limits[2])
                           ELSE mcopy
          IN  [err |-> "none",
               cores |-> Dispatch(self, clipped,
                                  IF partial THEN None ELSE limits, error_mask),
               wmin |-> limits[1],
               wmax |-> limits[2],
               dtype |-> IF matrix.cplx THEN "complex" ELSE "real",
               warned |-> partial /\ RangeWarning(self, matrix)]

\* set_matrix recomputing the limits on a partial update as well
set_matrix_relimit(self, matrix, error_mask) ==
    LET cv == complex_valued(self.params)
        unchanged == [err |-> "none", cores |-> self.cores, wmin |-> self.wmin,
                      wmax |-> self.wmax, dtype |-> self.dtype, warned |-> FALSE]
    IN  IF self.shape # <<matrix.nr, matrix.nc>>
          THEN [unchanged EXCEPT !.err = "ValueError"]
        ELSE IF matrix.cplx /\ ~cv
          THEN [unchanged EXCEPT !.err = "ValueError"]
        ELSE
          LET mcopy == Encode(cv, matrix)
              partial == ~IsNone(error_mask)
              limits == FullLimits(self.params, mcopy, self.nrow, self.ncol)
              clipped == IF self.params.weight_clipping
                           THEN Clip(mcopy, self.nrow, self.ncol, limits[1], limits[2])
                           ELSE mcopy
          IN  [err |-> "none",
               cores |-> Dispatch(self, clipped,
                                  IF partial THEN None ELSE limits, error_mask),
               wmin |-> limits[1],
               wmax |-> limits[2],
               dtype |-> IF matrix.cplx THEN "complex" ELSE "real",
               warned |-> partial /\ RangeWarning(self, matrix)]

\* the whole of set_matrix: the fields of self it leaves behind
set_matrix(self, matrix, error_mask) ==
    LET cv == complex_valued(self.params)
        unchanged == [err |-> "none", cores |-> self.cores, wmin |-> self.wmin,
                      wmax |-> self.wmax, dtype |-> self.dtype, warned |-> FALSE]
    IN  IF self.shape # <<matrix.nr, matrix.nc>>
          THEN [unchanged EXCEPT !.err = "ValueError"]
        ELSE IF matrix.cplx /\ ~cv
          THEN [unchanged EXCEPT !.err = "ValueError"]
        ELSE
          LET mcopy == Encode(cv, matrix)
              partial == ~IsNone(error_mask)
              limits == IF partial THEN <<self.wmin, self.wmax>>
                        ELSE FullLimits(self.params, mcopy, self.nrow, self.ncol)
              clipped == IF self.params.weight_clipping
                           THEN Clip(mcopy, self.nrow, self.ncol, limits[1], limits[2])
                           ELSE mcopy
          IN  [err |-> "none",
               cores |-> Dispatch(self, clipped,
                                  IF partial THEN None ELSE limits, error_mask),
               wmin |-> limits[1],
               wmax |-> limits[2],
               dtype |-> IF matrix.cplx THEN "complex" ELSE "real",
               warned |-> partial /\ RangeWarning(self, matrix)]

(***************************************************************************)
(* AnalogCore.get_matrix, lines 451-467.                                   *)
(***************************************************************************)
\* the partition that holds encoded index g (the last one written wins)
PartOf(bounds, count, g) ==
    SetMax({k \in 0..count-1 : bounds[k][2] <= g /\ g < bounds[k][3]})

\* lines 451-459: np.zeros((nrow, ncol)) filled block by block
Assemble(self) ==
    IF self.Ncores = 1
      THEN read_matrix(self.cores[0][0])
      ELSE
        LET rb == PartitionBounds(self.NrowsVec, self.num_cores_row)
            cb == PartitionBounds(self.NcolsVec, self.num_cores_col)
            covered(b, n, g) == \E k \in 0..n-1 : b[k][2] <= g /\ g < b[k][3]
        IN  [i \in 0..self.nrow-1 |-> [j \in 0..self.ncol-1 |->
              IF covered(rb, self.num_cores_row, i) /\ covered(cb, self.num_cores_col, j)
                THEN LET r == PartOf(rb, self.num_cores_row, i)
                         c == PartOf(cb, self.num_cores_col, j)
                     IN  read_matrix(self.cores[r][c])[i - rb[r][2]][j - cb[c][2]]
                ELSE 0]]

get_matrix(self) ==
    Decode(complex_valued(self.params), Assemble(self), self.nrow, self.ncol)

(***************************************************************************)
(* The four multiply orientations, lines 488-675.  A vector is a record    *)
(* [n, re, im, cplx]; a 2-D operand is a logical matrix.  The input range  *)
(* handed to the cells has no effect on an ideal cell and is left out.     *)
(***************************************************************************)
LVec(n, re, im, cplx) == [n |-> n, re |-> re, im |-> im, cplx |-> cplx]
ZeroVec(n) == [i \in 0..n-1 |-> 0]
RealVec(n, re) == LVec(n, re, ZeroVec(n), FALSE)

\* the bounds the loops run over; a single core holds the whole matrix
RowBounds(self) == PartitionBounds(self.NrowsVec, self.num_cores_row)
ColBounds(self) == PartitionBounds(self.NcolsVec, self.num_cores_col)

\* run_xbar_mvm of cell (r, c) on x[col_start:col_end], local output row i:
\* the ideal cell returns block @ input
run_xbar_mvm(self, r, c, i, x) ==
    LET cb == ColBounds(self)[c]
        blk == self.cores[r][c].matrix
    IN  SumF([j \in cb[2]..cb[3]-1 |-> blk[i][j - cb[2]] * x[j]], cb[2], cb[3])

\* run_xbar_vmm of cell (r, c) on y[row_start:row_end], local output column j:
\* the ideal cell returns input @ block
run_xbar_vmm(self, r, c, j, y) ==
    LET rb == RowBounds(self)[r]
        blk == self.cores[r][c].matrix
    IN  SumF([i \in rb[2]..rb[3]-1 |-> y[i] * blk[i - rb[2]][j]], rb[2], rb[3])

\* ForwardOut with `=` in place of `+=`: only the last column partition counts
ForwardOut_mut(self, x, g) ==
    LET rb == RowBounds(self)
    IN  SumF([r \in 0..self.num_cores_row-1 |->
                IF rb[r][2] <= g /\ g < rb[r][3]
                  THEN run_xbar_mvm(self, r, self.num_cores_col - 1, g - rb[r][2], x)
                  ELSE 0],
             0, self.num_cores_row)

\* lines 507-518 and 558-569: output[row_start:row_end] += cell(r, c) result,
\* for every cell; element g of the forward output over encoded input x
ForwardOut(self, x, g) ==
    LET rb == RowBounds(self)
    IN  SumF([r \in 0..self.num_cores_row-1 |->
                IF rb[r][2] <= g /\ g < rb[r][3]
                  THEN SumF([c \in 0..self.num_cores_col-1 |->
                               run_xbar_mvm(self, r, c, g - rb[r][2], x)],
                            0, self.num_cores_col)
                  ELSE 0],
             0, self.num_cores_row)

\* lines 607-618 and 657-668: output[col_start:col_end] += cell(r, c) result
ReverseOut(self, y, g) ==
    LET cb == ColBounds(self)
    IN  SumF([c \in 0..self.num_cores_col-1 |->
                IF cb[c][2] <= g /\ g < cb[c][3]
                  THEN SumF([r \in 0..self.num_cores_row-1 |->
                               run_xbar_vmm(self, r, c, g - cb[c][2], y)],
                            0, self.num_cores_row)
                  ELSE 0],
             0, self.num_cores_col)

NoVec == LVec(0, <<>>, <<>>, FALSE)
NoMat == LMat(0, 0, <<>>, <<>>, FALSE)

\* Does every cell receive an input of its own size, for an encoded operand
\* of n entries along the contracted axis of encoded length dim?  A single
\* core is handed the whole operand (lines 508, 559, 608, 658); in a grid
\* each cell is handed operand[start:end] (lines 514, 565, 614, 664), which is
\* shorter than the cell when the operand ends before `end`.  A cell handed
\* an input of another size is outside this file: the call then ends with
\* err = "CellInput".
InputsFit(self, n, dim) == IF self.Ncores = 1 THEN n = dim ELSE n >= dim
EncLen(self, n) == IF complex_valued(self.params) THEN 2 * n ELSE n

\* check_dimensions, lines 275-294, for a 1-D or 2-D operand of the given shape
check_dimensions(self, xshape, reverse) ==
    IF reverse
      THEN (IF Len(xshape) = 2 THEN xshape[2] = self.shape[1]
                               ELSE xshape[1] = self.shape[1])
      ELSE xshape[1] = self.shape[2]

\* matvec, lines 488-527
matvec(self, vec, bypass_dimcheck) ==
    IF ~bypass_dimcheck /\ ~check_dimensions(self, <<vec.n>>, FALSE)
      THEN [err |-> "ValueError", out |-> NoVec]
    ELSE IF ~InputsFit(self, EncLen(self, vec.n), self.ncol)
      THEN [err |-> "CellInput", out |-> NoVec]
      ELSE
        LET cv == complex_valued(self.params)
            vcopy == IF cv
                       THEN [k \in 0..2*vec.n-1 |->
                               IF k < vec.n THEN vec.re[k] ELSE vec.im[k - vec.n]]
                       ELSE vec.re
            output == [g \in 0..self.nrow-1 |-> ForwardOut(self, vcopy, g)]
            N == self.nrow \div 2
        IN  [err |-> "none",
             out |-> IF cv
                       THEN LVec(N, [k \in 0..N-1 |-> output[k]],
                                 [k \in 0..self.nrow-N-1 |-> output[N + k]], TRUE)
                       ELSE RealVec(self.nrow, output)]

\* vecmat, lines 592-626 (no dimension check is made)
vecmat(self, vec) ==
  IF ~InputsFit(self, EncLen(self, vec.n), self.nrow)
    THEN [err |-> "CellInput", out |-> NoVec]
  ELSE
    LET cv == complex_valued(self.params)
        vcopy == IF cv
                   THEN [k \in 0..2*vec.n-1 |->
                           IF k < vec.n THEN vec.im[k] ELSE vec.re[k - vec.n]]
                   ELSE vec.re
        output == [g \in 0..self.ncol-1 |-> ReverseOut(self, vcopy, g)]
        N == self.ncol \div 2
    IN  [err |-> "none",
         out |-> IF cv
                   THEN LVec(N, [k \in 0..self.ncol-N-1 |-> output[N + k]],
                             [k \in 0..N-1 |-> output[k]], TRUE)
                   ELSE RealVec(self.ncol, output)]

\* matmat, lines 543-576 (no dimension check is made)
matmat(self, mat) ==
  IF ~InputsFit(self, EncLen(self, mat.nr), self.ncol)
    THEN [err |-> "CellInput", out |-> NoMat]
  ELSE
    LET cv == complex_valued(self.params)
        \* column q of vstack((real, imag))
        mcol(q) == IF cv
                     THEN [k \in 0..2*mat.nr-1 |->
                             IF k < mat.nr THEN mat.re[k][q] ELSE mat.im[k - mat.nr][q]]
                     ELSE [k \in 0..mat.nr-1 |-> mat.re[k][q]]
        output == [g \in 0..self.nrow-1 |-> [q \in 0..mat.nc-1 |->
                     ForwardOut(self, mcol(q), g)]]
        N == self.nrow \div 2
    IN  [err |-> "none",
         out |-> IF cv
                   THEN LMat(N, mat.nc, Block(output, 0, N, 0, mat.nc),
                             Block(output, N, self.nrow, 0, mat.nc), TRUE)
                   ELSE RealMat(self.nrow, mat.nc, output)]

\* rmatmat recomposed as output_real + 1j * output_imag
rmatmat_mut(self, mat) ==
  IF ~InputsFit(self, EncLen(self, mat.nc), self.nrow)
    THEN [err |-> "CellInput", out |-> NoMat]
  ELSE
    LET cv == complex_valued(self.params)
        mrow(q) == IF cv
                     THEN [k \in 0..2*mat.nc-1 |->
                             IF k < mat.nc THEN mat.re[q][k] ELSE 0 - mat.im[q][k - mat.nc]]
                     ELSE mat.re[q]
        output == [q \in 0..mat.nr-1 |-> [g \in 0..self.ncol-1 |->
                     ReverseOut(self, mrow(q), g)]]
        N == self.ncol \div 2
    IN  [err |-> "none",
         out |-> IF cv
                   THEN LMat(mat.nr, N, Block(output, 0, mat.nr, 0, N),
                             Block(output, 0, mat.nr, N, self.ncol), TRUE)
                   ELSE RealMat(mat.nr, self.ncol, output)]

\* rmatmat, lines 642-675 (no dimension check is made)
rmatmat(self, mat) ==
  IF ~InputsFit(self, EncLen(self, mat.nc), self.nrow)
    THEN [err |-> "CellInput", out |-> NoMat]
  ELSE
    LET cv == complex_valued(self.params)
        \* row q of hstack((real, -imag))
        mrow(q) == IF cv
                     THEN [k \in 0..2*mat.nc-1 |->
                             IF k < mat.nc THEN mat.re[q][k] ELSE 0 - mat.im[q][k - mat.nc]]
                     ELSE mat.re[q]
        output == [q \in 0..mat.nr-1 |-> [g \in 0..self.ncol-1 |->
                     ReverseOut(self, mrow(q), g)]]
        N == self.ncol \div 2
    IN  [err |-> "none",
         out |-> IF cv
                   THEN LMat(mat.nr, N, Block(output, 0, mat.nr, 0, N),
                             NegMat(Block(output, 0, mat.nr, N, self.ncol),
                                    mat.nr, self.ncol - N), TRUE)
                   ELSE RealMat(mat.nr, self.ncol, output)]

(***************************************************************************)
(* mat_multivec, lines 763-795: the outcomes of a call with a packed input  *)
(* of vec.n elements.  A real single core is handed the flattened input    *)
(* with the dimension check bypassed.  In a grid the size is checked, then  *)
(* each cell is handed Ncopy * cols values; its result is reshaped to       *)
(* (Ncopy, j_start - j_end), a negative dimension: -1 is numpy's unknown    *)
(* dimension, any other negative value is accepted as unknown or rejected  *)
(* with ValueError depending on the numpy build.                           *)
(***************************************************************************)
mat_multivec(self, vec) ==
    LET Ncopy == self.params.x_par * self.params.y_par
    IN  IF complex_valued(self.params)
          THEN {[err |-> "NotImplementedError", invoked |-> FALSE, out |-> NoVec]}
        ELSE IF self.Ncores = 1
          THEN {[err |-> matvec(self, vec, TRUE).err, invoked |-> TRUE,
                 out |-> matvec(self, vec, TRUE).out]}
        ELSE IF vec.n # Ncopy * self.ncol
          THEN {[err |-> "ValueError", invoked |-> FALSE, out |-> NoVec]}
        ELSE IF Ncopy # 1
          THEN {[err |-> "CellInput", invoked |-> TRUE, out |-> NoVec]}
        ELSE {[err |-> "none", invoked |-> TRUE, out |-> matvec(self, vec, TRUE).out]}
             \cup (IF \E j \in 0..self.num_cores_row-1 : self.NrowsVec[j] > 1
                     THEN {[err |-> "ValueError", invoked |-> TRUE, out |-> NoVec]}
                     ELSE {})

(***************************************************************************)
(* dot / rdot, lines 692-742.  An operand is a record                      *)
(* [ndim, nr, nc, re, im, cplx]; a 1-D operand has nr = 1 and its elements *)
(* in row 0, a 0-D operand has nr = nc = 1.                                *)
(***************************************************************************)
Arr(ndim, nr, nc, re, im, cplx) ==
    [ndim |-> ndim, nr |-> nr, nc |-> nc, re |-> re, im |-> im, cplx |-> cplx]
MatArr(M) == Arr(2, M.nr, M.nc, M.re, M.im, M.cplx)
VecArr(v) == Arr(1, 1, v.n, [i \in 0..0 |-> v.re], [i \in 0..0 |-> v.im], v.cplx)
ArrMat(a) == LMat(a.nr, a.nc, a.re, a.im, a.cplx)
ArrVec(a) == LVec(a.nc, a.re[0], a.im[0], a.cplx)
\* column q and row q of a 2-D operand as vectors
ColVec(a, q) == LVec(a.nr, [k \in 0..a.nr-1 |-> a.re[k][q]],
                     [k \in 0..a.nr-1 |-> a.im[k][q]], a.cplx)
RowVec(a, q) == LVec(a.nc, a.re[q], a.im[q], a.cplx)
NoArr == Arr(0, 0, 0, <<>>, <<>>, FALSE)

\* lines 694-713
dot(self, x) ==
    IF x.ndim = 1
      THEN LET r == matvec(self, ArrVec(x), FALSE)
           IN  [err |-> r.err, route |-> "matvec",
                out |-> IF r.err = "none" THEN VecArr(r.out) ELSE NoArr]
    ELSE IF x.ndim = 2 /\ x.nc = 1
      THEN LET r == matvec(self, ColVec(x, 0), FALSE)
           IN  [err |-> r.err, route |-> "matvec",
                out |-> IF r.err = "none" THEN VecArr(r.out) ELSE NoArr]
    ELSE IF x.ndim = 2
      THEN IF ~(self.params.fast_matmul \/ x.nc = 0)
             THEN LET col(q) == matvec(self, ColVec(x, q), FALSE)
                      cplx == col(0).out.cplx
                      n == col(0).out.n
                  IN  IF \E q \in 0..x.nc-1 : col(q).err # "none"
                        THEN [err |-> "ValueError", route |-> "matvecs", out |-> NoArr]
                        ELSE [err |-> "none", route |-> "matvecs",
                              out |-> Arr(2, n, x.nc,
                                [i \in 0..n-1 |-> [q \in 0..x.nc-1 |-> col(q).out.re[i]]],
                                [i \in 0..n-1 |-> [q \in 0..x.nc-1 |-> col(q).out.im[i]]],
                                cplx)]
             ELSE LET r == matmat(self, ArrMat(x))
                  IN  [err |-> r.err, route |-> "matmat", out |-> MatArr(r.out)]
    ELSE [err |-> "ValueError", route |-> "none", out |-> NoArr]

\* rdot testing the column count, as dot does, instead of the row count
rdot_mut(self, x) ==
    IF x.ndim = 1
      THEN LET r == vecmat(self, ArrVec(x))
           IN  [err |-> r.err, route |-> "vecmat", out |-> VecArr(r.out)]
    ELSE IF x.ndim = 2 /\ x.nc = 1
      THEN LET r == IF self.Ncores = 1 /\ ~complex_valued(self.params)
                      THEN vecmat(self, RowVec(x, 0))
                      ELSE [err |-> "CellInput", out |-> NoVec]
           IN  [err |-> r.err, route |-> "vecmat", out |-> VecArr(r.out)]
    ELSE IF x.ndim = 2
      THEN IF ~(self.params.fast_matmul \/ x.nr = 0)
             THEN LET row(q) == vecmat(self, RowVec(x, q))
                      cplx == row(0).out.cplx
                      n == row(0).out.n
                  IN  IF \E q \in 0..x.nr-1 : row(q).err # "none"
                        THEN [err |-> row(0).err, route |-> "vecmats", out |-> NoArr]
                        ELSE [err |-> "none", route |-> "vecmats",
                              out |-> Arr(2, x.nr, n,
                                [q \in 0..x.nr-1 |-> row(q).out.re],
                                [q \in 0..x.nr-1 |-> row(q).out.im],
                                cplx)]
             ELSE LET r == rmatmat(self, ArrMat(x))
                  IN  [err |-> r.err, route |-> "rmatmat", out |-> MatArr(r.out)]
    ELSE [err |-> "ValueError", route |-> "none", out |-> NoArr]

\* lines 730-742
rdot(self, x) ==
    IF x.ndim = 1
      THEN LET r == vecmat(self, ArrVec(x))
           IN  [err |-> r.err, route |-> "vecmat", out |-> VecArr(r.out)]
    ELSE IF x.ndim = 2 /\ x.nr = 1
      \* vecmat is handed the 2-D (1, n) array: concatenate and
      \* vcopy[row_start:row_end] then act on its axis of length 1, so only a
      \* real single core receives the n values as one input
      THEN LET r == IF self.Ncores = 1 /\ ~complex_valued(self.params)
                      THEN vecmat(self, RowVec(x, 0))
                      ELSE [err |-> "CellInput", out |-> NoVec]
           IN  [err |-> r.err, route |-> "vecmat", out |-> VecArr(r.out)]
    ELSE IF x.ndim = 2
      THEN IF ~(self.params.fast_matmul \/ x.nr = 0)
             THEN LET row(q) == vecmat(self, RowVec(x, q))
                      cplx == row(0).out.cplx
                      n == row(0).out.n
                  IN  IF \E q \in 0..x.nr-1 : row(q).err # "none"
                        THEN [err |-> row(0).err, route |-> "vecmats", out |-> NoArr]
                        ELSE [err |-> "none", route |-> "vecmats",
                              out |-> Arr(2, x.nr, n,
                                [q \in 0..x.nr-1 |-> row(q).out.re],
                                [q \in 0..x.nr-1 |-> row(q).out.im],
                                cplx)]
             ELSE LET r == rmatmat(self, ArrMat(x))
                  IN  [err |-> r.err, route |-> "rmatmat", out |-> MatArr(r.out)]
    ELSE [err |-> "ValueError", route |-> "none", out |-> NoArr]

(***************************************************************************)
(* numpy indexing of a 2-D array by the slices _create_mask returns.       *)
(***************************************************************************)
\* position of index g in the selection sel of length n
PosIn(sel, n, g) == CHOOSE k \in 0..n-1 : sel[k] = g

\* a[rslice, cslice] of a logical matrix, as a 2-D array
GetSlices(M, rslice, cslice) ==
    LET rows == Selected(rslice, M.nr)
        cols == Selected(cslice, M.nc)
        R == SelLen(rslice, M.nr)
        C == SelLen(cslice, M.nc)
    IN  Arr(2, R, C,
            [i \in 0..R-1 |-> [j \in 0..C-1 |-> M.re[rows[i]][cols[j]]]],
            [i \in 0..R-1 |-> [j \in 0..C-1 |-> M.im[rows[i]][cols[j]]]],
            M.cplx)

\* ndarray.flatten() of a 2-D array
Flatten(a) ==
    Arr(1, 1, a.nr * a.nc,
        [z \in 0..0 |-> [k \in 0..a.nr*a.nc-1 |-> a.re[k \div a.nc][k % a.nc]]],
        [z \in 0..0 |-> [k \in 0..a.nr*a.nc-1 |-> a.im[k \div a.nc][k % a.nc]]],
        a.cplx)

\* can value v be broadcast to a region of R rows and C columns
Broadcastable(v, R, C) == (v.nr = 1 \/ v.nr = R) /\ (v.nc = 1 \/ v.nc = C)

\* a[rslice, cslice] = v, lines 811 and 1071: the array after the assignment
\* (v is broadcast; the dtype of a is kept, so a real array drops Im(v))
SetSlices(M, rslice, cslice, v) ==
    LET rows == Selected(rslice, M.nr)
        cols == Selected(cslice, M.nc)
        R == SelLen(rslice, M.nr)
        C == SelLen(cslice, M.nc)
        inr(i) == \E k \in 0..R-1 : rows[k] = i
        inc(j) == \E k \in 0..C-1 : cols[k] = j
        vi(i) == IF v.nr = 1 THEN 0 ELSE PosIn(rows, R, i)
        vj(j) == IF v.nc = 1 THEN 0 ELSE PosIn(cols, C, j)
    IN  LMat(M.nr, M.nc,
             [i \in 0..M.nr-1 |-> [j \in 0..M.nc-1 |->
                IF inr(i) /\ inc(j) THEN v.re[vi(i)][vj(j)] ELSE M.re[i][j]]],
             [i \in 0..M.nr-1 |-> [j \in 0..M.nc-1 |->
                IF inr(i) /\ inc(j) /\ M.cplx THEN v.im[vi(i)][vj(j)] ELSE M.im[i][j]]],
             M.cplx)

(***************************************************************************)
(* __getitem__ lines 802-806, MaskedCore lines 1028-1072, __setitem__      *)
(* lines 808-813.                                                          *)
(***************************************************************************)
\* MaskedCore.get_matrix, lines 1063-1067, of the view MaskedCore(self, rslice,
\* cslice, flatten): a flattened view reads parent.get_matrix()[rslice]
masked_get_matrix(self, rslice, cslice, flatten) ==
    IF flatten
      THEN Flatten(GetSlices(get_matrix(self), rslice, Slice(None, None, None)))
      ELSE GetSlices(get_matrix(self), rslice, cslice)

\* self[item].get_matrix()
getitem_get_matrix(self, item) ==
    LET m == create_mask(item, self.shape)
    IN  IF m.err # "none" THEN [err |-> m.err, out |-> NoArr]
        ELSE IF m.full_mask THEN [err |-> "none", out |-> MatArr(get_matrix(self))]
        ELSE [err |-> "none",
              out |-> masked_get_matrix(self, m.rslice, m.cslice, m.flatten)]

\* self[key] = value: the fields of self it leaves behind, and the error_mask
\* it handed to set_matrix
setitem(self, key, value) ==
    LET m == create_mask(key, self.shape)
        unchanged == [err |-> "none", cores |-> self.cores, wmin |-> self.wmin,
                      wmax |-> self.wmax, dtype |-> self.dtype, warned |-> FALSE,
                      error_mask |-> None, reached |-> FALSE, matrix |-> NoMat]
    IN  IF m.err # "none" THEN [unchanged EXCEPT !.err = m.err]
        ELSE IF ~Broadcastable(value, SelLen(m.rslice, self.shape[1]),
                               SelLen(m.cslice, self.shape[2]))
          THEN [unchanged EXCEPT !.err = "ValueError"]
        ELSE
          LET expanded_mat == SetSlices(get_matrix(self), m.rslice, m.cslice, value)
              error_mask == IF m.full_mask THEN None ELSE <<m.rslice, m.cslice>>
              r == set_matrix(self, expanded_mat, error_mask)
          IN  [err |-> r.err, cores |-> r.cores, wmin |-> r.wmin, wmax |-> r.wmax,
               dtype |-> r.dtype, warned |-> r.warned,
               error_mask |-> error_mask, reached |-> TRUE, matrix |-> expanded_mat]

(***************************************************************************)
(* The object as one record, and the inputs the calls are made with.       *)
(***************************************************************************)
Self == [params |-> params, shape |-> shape, nrow |-> nrow, ncol |-> ncol,
         Ncores |-> Ncores, num_cores_row |-> num_cores_row,
         num_cores_col |-> num_cores_col, NrowsVec |-> NrowsVec,
         NcolsVec |-> NcolsVec, cores |-> cores, wmin |-> wmin, wmax |-> wmax,
         dtype |-> dtype]

\* element (i, j) of the s-th test matrix with nc columns
Gen(s, i, j, nc) ==
    IF s % 3 = 0 THEN i * nc + j + 1 + s
    ELSE IF s % 3 = 1 THEN 3 * i - 2 * j + s
    ELSE (((i + 1) * (j + 2) * s) % 5) - 2

GenMat(s, nr, nc) == [i \in 0..nr-1 |-> [j \in 0..nc-1 |-> Gen(s, i, j, nc)]]
\* the s-th test matrix: complex (imaginary part from the next seed) or real
TestMat(s, nr, nc, cplx) ==
    IF cplx THEN LMat(nr, nc, GenMat(s, nr, nc), GenMat(s + 1, nr, nc), TRUE)
            ELSE RealMat(nr, nc, GenMat(s, nr, nc))
TestArr(s, ndim, nr, nc, cplx) ==
    LET M == TestMat(s, nr, nc, cplx)
    IN  Arr(ndim, nr, nc, M.re, M.im, cplx)
UnitVec(n, k) == RealVec(n, [i \in 0..n-1 |-> IF i = k THEN 1 ELSE 0])
TestVec(s, n, cplx) == ArrVec(TestArr(s, 1, 1, n, cplx))

Seeds == 0..MaxSeed
OperandSeeds == 1..MaxSeed
UnitVecs(n) == {UnitVec(n, k) : k \in 0..n-1}
VecOperands(n, cplx) == {TestVec(s, n, cplx) : s \in OperandSeeds}
\* the shapes and per-core maxima of the instances that are programmed
MatDims == (MaxDim - 1)..MaxDim
CoreMaxima == {0} \cup 2..MaxCoreDim

BaseParams ==
    [complex_matrix |-> FALSE, complex_input |-> FALSE,
     rows_max |-> 0, cols_max |-> 0,
     row_partition_priority |-> <<>>, col_partition_priority |-> <<>>,
     row_partition_strategy |-> "MAX", col_partition_strategy |-> "MAX",
     weight_clipping |-> FALSE, weights_min |-> 0 - 100, weights_max |-> 100,
     weights_percentile |-> None, fast_matmul |-> FALSE,
     x_par |-> 1, y_par |-> 1]

Unbuilt ==
    /\ pc = "new"
    /\ err = "none"
    /\ shape = <<0, 0>>
    /\ nrow = 0
    /\ ncol = 0
    /\ Ncores = 0
    /\ num_cores_row = 0
    /\ num_cores_col = 0
    /\ NrowsVec = <<>>
    /\ NcolsVec = <<>>
    /\ cores = <<>>
    /\ wmin = 0
    /\ wmax = 0
    /\ dtype = "unset"
    /\ programmed = NoMat
    /\ writes = 0

(***************************************************************************)
(* __init__, lines 81-269: call holds the arguments of the pending call.   *)
(***************************************************************************)
Construct ==
    /\ pc = "new"
    /\ LET M == call.matrix
           pl == Plan(params, <<M.nr, M.nc>>)
           blank == [r \in 0..pl.num_cores_row-1 |-> [c \in 0..pl.num_cores_col-1 |->
                       Cell(<<>>, None, None)]]
           built == [params |-> params, shape |-> <<M.nr, M.nc>>,
                     nrow |-> pl.nrow, ncol |-> pl.ncol, Ncores |-> pl.Ncores,
                     num_cores_row |-> pl.num_cores_row,
                     num_cores_col |-> pl.num_cores_col,
                     NrowsVec |-> pl.NrowsVec, NcolsVec |-> pl.NcolsVec,
                     cores |-> blank, wmin |-> 0, wmax |-> 0, dtype |-> "unset"]
           r == IF pl.err # "none" \/ call.empty_matrix
                  THEN [err |-> pl.err, cores |-> IF pl.err = "none" THEN blank ELSE <<>>,
                        wmin |-> 0, wmax |-> 0, dtype |-> "unset", warned |-> FALSE]
                  ELSE set_matrix(built, M, None)
       IN  /\ shape' = <<M.nr, M.nc>>
           /\ nrow' = pl.nrow
           /\ ncol' = pl.ncol
           /\ Ncores' = pl.Ncores
           /\ num_cores_row' = pl.num_cores_row
           /\ num_cores_col' = pl.num_cores_col
           /\ NrowsVec' = pl.NrowsVec
           /\ NcolsVec' = pl.NcolsVec
           /\ err' = r.err
           /\ pc' = IF r.err = "none" THEN "ready" ELSE "raised"
           /\ cores' = r.cores
           /\ wmin' = r.wmin
           /\ wmax' = r.wmax
           /\ dtype' = r.dtype
           /\ programmed' = IF r.err = "none" /\ ~call.empty_matrix THEN M ELSE NoMat
           /\ call' = [op |-> "init", matrix |-> M, empty_matrix |-> call.empty_matrix]
    /\ UNCHANGED <<params, writes>>

\* __init__ with params given as one object or as a list (call.plist)
ConstructList ==
    /\ pc = "new"
    /\ \E M \in {call.matrix} :
       \E pl \in {ListPlan(params, <<M.nr, M.nc>>, call.plist)} :
       \E blank \in {[r \in 0..pl.num_cores_row-1 |-> [c \in 0..pl.num_cores_col-1 |->
                        Cell(<<>>, None, None)]]} :
       \E r \in {IF pl.err # "none" \/ call.empty_matrix
                   THEN [err |-> pl.err,
                         cores |-> IF pl.err = "none" THEN blank ELSE <<>>,
                         wmin |-> 0, wmax |-> 0, dtype |-> "unset", warned |-> FALSE]
                   ELSE set_matrix(
                          [params |-> params, shape |-> <<M.nr, M.nc>>,
                           nrow |-> pl.nrow, ncol |-> pl.ncol, Ncores |-> pl.Ncores,
                           num_cores_row |-> pl.num_cores_row,
                           num_cores_col |-> pl.num_cores_col,
                           NrowsVec |-> pl.NrowsVec, NcolsVec |-> pl.NcolsVec,
                           cores |-> blank, wmin |-> 0, wmax |-> 0, dtype |-> "unset"],
                          M, None)} :
           /\ shape' = <<M.nr, M.nc>>
           /\ nrow' = pl.nrow
           /\ ncol' = pl.ncol
           /\ Ncores' = pl.Ncores
           /\ num_cores_row' = pl.num_cores_row
           /\ num_cores_col' = pl.num_cores_col
           /\ NrowsVec' = pl.NrowsVec
           /\ NcolsVec' = pl.NcolsVec
           /\ err' = r.err
           /\ pc' = IF r.err = "none" THEN "ready" ELSE "raised"
           /\ cores' = r.cores
           /\ wmin' = r.wmin
           /\ wmax' = r.wmax
           /\ dtype' = r.dtype
           /\ programmed' = IF r.err = "none" /\ ~call.empty_matrix THEN M ELSE NoMat
           /\ call' = [op |-> "init", matrix |-> M, empty_matrix |-> call.empty_matrix,
                       plist |-> call.plist, made |-> MadeCores(pl),
                       picked |-> PickedParams(pl)]
    /\ UNCHANGED <<params, writes>>

Programmed == pc = "ready" /\ dtype # "unset"
Frame == UNCHANGED <<pc, params, shape, nrow, ncol, Ncores, num_cores_row,
                     num_cores_col, NrowsVec, NcolsVec>>
ReadOnly == Frame /\ UNCHANGED <<cores, wmin, wmax, dtype, programmed, writes>>

(***************************************************************************)
(* The multiplies, called on a programmed instance.                        *)
(***************************************************************************)
MatVec ==
    /\ Programmed
    /\ \E v \in VecOperands(shape[2], complex_valued(params)) :
         LET r == matvec(Self, v, FALSE)
         IN  /\ err' = r.err
             /\ call' = [op |-> "matvec", x |-> VecArr(v), out |-> VecArr(r.out)]
    /\ ReadOnly

VecMat ==
    /\ Programmed
    /\ \E v \in VecOperands(shape[1], complex_valued(params)) :
         LET r == vecmat(Self, v)
         IN  /\ err' = r.err
             /\ call' = [op |-> "vecmat", x |-> VecArr(v), out |-> VecArr(r.out)]
    /\ ReadOnly

MatMat ==
    /\ Programmed
    /\ \E s \in OperandSeeds :
         LET x == TestMat(s, shape[2], 2, complex_valued(params))
             r == matmat(Self, x)
         IN  /\ err' = r.err
             /\ call' = [op |-> "matmat", x |-> MatArr(x), out |-> MatArr(r.out)]
    /\ ReadOnly

RMatMat ==
    /\ Programmed
    /\ \E s \in OperandSeeds :
         LET x == TestMat(s, 2, shape[1], complex_valued(params))
             r == rmatmat(Self, x)
         IN  /\ err' = r.err
             /\ call' = [op |-> "rmatmat", x |-> MatArr(x), out |-> MatArr(r.out)]
    /\ ReadOnly

Dot ==
    /\ Programmed
    /\ \E x \in {VecArr(v) : v \in UnitVecs(shape[2])}
                \cup {TestArr(MaxSeed, 2, shape[2], 2, complex_valued(params))} :
         LET r == dot(Self, x)
         IN  /\ err' = r.err
             /\ call' = [op |-> "dot", x |-> x, out |-> r.out]
    /\ ReadOnly

RDot ==
    /\ Programmed
    /\ \E x \in {VecArr(v) : v \in UnitVecs(shape[1])}
                \cup {TestArr(MaxSeed, 2, 2, shape[1], complex_valued(params))} :
         LET r == rdot(Self, x)
         IN  /\ err' = r.err
             /\ call' = [op |-> "rdot", x |-> x, out |-> r.out]
    /\ ReadOnly

(***************************************************************************)
(* The multiplies called with operands of any length and rank.             *)
(***************************************************************************)
\* operand lengths around the dimension d
Lens(d) == {d - 1, d, d + 1}
\* operands of dot for d logical columns: 1-D, 2-D with 0, 1 or 2 columns,
\* 2-D with one row too many, 0-D and 3-D
DotOperands(d, cplx) ==
    {TestArr(1, 1, 1, n, cplx) : n \in Lens(d)}
    \cup {TestArr(1, 2, d, k, cplx) : k \in 0..2}
    \cup {TestArr(1, 2, d + 1, 2, cplx), TestArr(1, 0, 1, 1, cplx),
          TestArr(1, 3, d, 2, cplx)}
\* operands of rdot for d logical rows
RDotOperands(d, cplx) ==
    {TestArr(1, 1, 1, n, cplx) : n \in Lens(d)}
    \cup {TestArr(1, 2, k, d, cplx) : k \in 0..2}
    \cup {TestArr(1, 2, 2, d + 1, cplx), TestArr(1, 0, 1, 1, cplx),
          TestArr(1, 3, 2, d, cplx)}

MatVecAny ==
    /\ Programmed
    /\ \E n \in Lens(shape[2]) :
       \E v \in {TestVec(1, n, complex_valued(params))} :
       \E r \in {matvec(Self, v, FALSE)} :
         /\ err' = r.err
         /\ call' = [op |-> "matvec", x |-> VecArr(v), out |-> VecArr(r.out)]
    /\ ReadOnly

VecMatAny ==
    /\ Programmed
    /\ \E n \in Lens(shape[1]) :
       \E v \in {TestVec(1, n, complex_valued(params))} :
       \E r \in {vecmat(Self, v)} :
         /\ err' = r.err
         /\ call' = [op |-> "vecmat", x |-> VecArr(v), out |-> VecArr(r.out)]
    /\ ReadOnly

MatMatAny ==
    /\ Programmed
    /\ \E n \in Lens(shape[2]) :
       \E x \in {TestMat(1, n, 2, complex_valued(params))} :
       \E r \in {matmat(Self, x)} :
         /\ err' = r.err
         /\ call' = [op |-> "matmat", x |-> MatArr(x), out |-> MatArr(r.out)]
    /\ ReadOnly

RMatMatAny ==
    /\ Programmed
    /\ \E n \in Lens(shape[1]) :
       \E x \in {TestMat(1, 2, n, complex_valued(params))} :
       \E r \in {rmatmat(Self, x)} :
         /\ err' = r.err
         /\ call' = [op |-> "rmatmat", x |-> MatArr(x), out |-> MatArr(r.out)]
    /\ ReadOnly

DotAny ==
    /\ Programmed
    /\ \E x \in DotOperands(shape[2], complex_valued(params)) :
       \E r \in {dot(Self, x)} :
         /\ err' = r.err
         /\ call' = [op |-> "dot", x |-> x, out |-> r.out, route |-> r.route]
    /\ ReadOnly

RDotAny ==
    /\ Programmed
    /\ \E x \in RDotOperands(shape[1], complex_valued(params)) :
       \E r \in {rdot(Self, x)} :
         /\ err' = r.err
         /\ call' = [op |-> "rdot", x |-> x, out |-> r.out, route |-> r.route]
    /\ ReadOnly

\* mat_multivec with a packed input of Ncopy * ncol elements, one less, one more
MatMultivec ==
    /\ Programmed
    /\ \E n \in Lens(params.x_par * params.y_par * ncol) :
       \E v \in {TestVec(1, n, FALSE)} :
       \E r \in mat_multivec(Self, v) :
         /\ err' = r.err
         /\ call' = [op |-> "mat_multivec", x |-> VecArr(v), out |-> VecArr(r.out),
                     invoked |-> r.invoked]
    /\ ReadOnly

(***************************************************************************)
(* Writes on a programmed instance: set_matrix and __setitem__.            *)
(***************************************************************************)
FullSlice == Slice(None, None, None)
ReverseSlice == Slice(None, None, Some(0 - 1))
\* the index components the writes are made with
Components ==
    {IntItem(1), IntItem(0 - 1), SliceItem(FullSlice), SliceItem(ReverseSlice),
     SliceItem(Slice(Some(1), Some(3), None)),
     SliceItem(Slice(Some(3), Some(1), Some(0 - 1))),
     SliceItem(Slice(None, None, Some(2)))}
Keys ==
    {[tuple |-> FALSE, items |-> <<a>>] : a \in Components}
    \cup {[tuple |-> TRUE, items |-> <<a, b>>] : a \in Components, b \in Components}

\* numpy's reading of an index expression on an array of shape shp: the
\* selected rows and columns and the rank of a[key]
KeyItems(key) == IF key.tuple THEN key.items ELSE <<key.items[1], SliceItem(FullSlice)>>
NpSel(it, n) ==
    IF it.kind = "int" THEN [k \in 0..0 |-> IF it.v < 0 THEN n + it.v ELSE it.v]
                       ELSE Selected(it.s, n)
NpLen(it, n) == IF it.kind = "int" THEN 1 ELSE SelLen(it.s, n)
NpRank(key) == Cardinality({k \in 1..2 : KeyItems(key)[k].kind = "slice"})
\* shape of a[key] in the (nr, nc) layout of Arr
NpShape(key, shp) ==
    LET its == KeyItems(key)
        R == NpLen(its[1], shp[1])
        C == NpLen(its[2], shp[2])
    IN  IF its[2].kind = "int" /\ its[1].kind = "slice" THEN <<1, R>> ELSE <<R, C>>

\* the values written through key: test arrays of the shape of a[key]
Values(key, shp, cplx) ==
    {TestArr(s, NpRank(key), NpShape(key, shp)[1], NpShape(key, shp)[2], cplx) :
        s \in OperandSeeds}

SetMatrix ==
    /\ Programmed
    /\ writes < MaxWrites
    /\ \E s \in Seeds, cplx \in BOOLEAN :
         LET M == TestMat(s, shape[1], shape[2], cplx)
             r == set_matrix(Self, M, None)
         IN  /\ err' = r.err
             /\ cores' = r.cores
             /\ wmin' = r.wmin
             /\ wmax' = r.wmax
             /\ dtype' = r.dtype
             /\ programmed' = IF r.err = "none" THEN M ELSE programmed
             /\ call' = [op |-> "set_matrix", matrix |-> M, before |-> get_matrix(Self)]
    /\ writes' = writes + 1
    /\ Frame

\* set_matrix with a matrix one row longer or one column narrower than self.shape
SetMatrixShape ==
    /\ Programmed
    /\ writes < MaxWrites
    /\ \E d \in {<<1, 0>>, <<0, 0 - 1>>} :
         \E M \in {TestMat(MaxSeed, shape[1] + d[1], shape[2] + d[2],
                           complex_valued(params))} :
           \E r \in {set_matrix(Self, M, None)} :
               /\ err' = r.err
               /\ cores' = r.cores
               /\ wmin' = r.wmin
               /\ wmax' = r.wmax
               /\ dtype' = r.dtype
               /\ programmed' = IF r.err = "none" THEN M ELSE programmed
               /\ call' = [op |-> "set_matrix", matrix |-> M, before |-> get_matrix(Self)]
    /\ writes' = writes + 1
    /\ Frame

SetItem ==
    /\ Programmed
    /\ writes < MaxWrites
    /\ \E key \in Keys :
         \E value \in Values(key, shape, complex_valued(params)) :
           \E r \in {setitem(Self, key, value)} :
               /\ err' = r.err
               /\ cores' = r.cores
               /\ wmin' = r.wmin
               /\ wmax' = r.wmax
               /\ dtype' = r.dtype
               /\ programmed' = IF r.reached /\ r.err = "none" THEN r.matrix
                                ELSE programmed
               /\ call' = [op |-> "setitem", key |-> key, value |-> value,
                           before |-> get_matrix(Self), wmin |-> wmin, wmax |-> wmax,
                           error_mask |-> r.error_mask, reached |-> r.reached,
                           warned |-> r.warned]
    /\ writes' = writes + 1
    /\ Frame

(***************************************************************************)
(* Specification of the partition planner: construction with               *)
(* empty_matrix=True over every shape and per-core maximum in the bounds.  *)
(***************************************************************************)
PlanParams ==
    {[BaseParams EXCEPT !.complex_matrix = cm, !.rows_max = a, !.cols_max = b,
                        !.row_partition_priority = rp, !.col_partition_priority = cp,
                        !.row_partition_strategy = rs, !.col_partition_strategy = cs] :
        cm \in BOOLEAN, a \in 0..MaxCoreDim, b \in 0..MaxCoreDim,
        rp \in {<<>>, <<2>>}, cp \in {<<>>, <<2>>},
        rs \in PartitionStrategies, cs \in PartitionStrategies}

InitPlan ==
    /\ Unbuilt
    /\ params \in PlanParams
    /\ call \in {[op |-> "new", matrix |-> RealMat(r, c, ZeroMat(r, c)),
                  empty_matrix |-> TRUE] : r \in 1..MaxPlanDim, c \in 1..MaxPlanDim}

NextPlan == Construct

SpecPlan == InitPlan /\ [][NextPlan]_vars

(***************************************************************************)
(* Specification of the multiplies: construction from a test matrix, then  *)
(* any multiply with any test operand.                                     *)
(***************************************************************************)
MulParams ==
    {[BaseParams EXCEPT !.complex_matrix = cm, !.rows_max = a, !.cols_max = b,
                        !.row_partition_strategy = IF fm THEN "MAX" ELSE "EVEN",
                        !.col_partition_strategy = IF fm THEN "MAX" ELSE "EVEN",
                        !.fast_matmul = fm] :
        cm \in BOOLEAN, a \in CoreMaxima, b \in CoreMaxima, fm \in BOOLEAN}

InitMul ==
    /\ Unbuilt
    /\ params \in MulParams
    /\ call \in {[op |-> "new", matrix |-> TestMat(s, r, c, params.complex_matrix),
                  empty_matrix |-> FALSE] :
                    r \in MatDims, c \in MatDims, s \in Seeds}

NextMul ==
    \/ Construct
    \/ MatVec
    \/ VecMat
    \/ MatMat
    \/ RMatMat
    \/ Dot
    \/ RDot

SpecMul == InitMul /\ [][NextMul]_vars

(***************************************************************************)
(* Specification of the writes: construction from a test matrix, then      *)
(* set_matrix and __setitem__ calls.                                       *)
(***************************************************************************)
\* (weight_clipping, min, max, percentile)
ClipModes == {<<FALSE, 0 - 6, 6, None>>, <<TRUE, 0 - 6, 6, None>>,
              <<TRUE, 0 - 6, 6, Some(1)>>}
RWParams ==
    {[BaseParams EXCEPT !.complex_matrix = cm, !.rows_max = a, !.cols_max = a,
                        !.weight_clipping = m[1], !.weights_min = m[2],
                        !.weights_max = m[3], !.weights_percentile = m[4]] :
        cm \in BOOLEAN, a \in CoreMaxima, m \in ClipModes}

InitRW ==
    /\ Unbuilt
    /\ params \in RWParams
    /\ call \in {[op |-> "new", matrix |-> TestMat(s, r, c, params.complex_matrix),
                  empty_matrix |-> FALSE] :
                    r \in MatDims, c \in MatDims, s \in Seeds}

NextRW ==
    \/ Construct
    \/ SetMatrix
    \/ SetMatrixShape
    \/ SetItem

SpecRW == InitRW /\ [][NextRW]_vars

(***************************************************************************)
(* Specification of the operand checks: construction from a test matrix,   *)
(* then any multiply with an operand of any length and rank.               *)
(***************************************************************************)
ShapeParams ==
    {[BaseParams EXCEPT !.complex_matrix = cm, !.rows_max = a, !.cols_max = a,
                        !.fast_matmul = fm, !.x_par = xp] :
        cm \in BOOLEAN, a \in CoreMaxima, fm \in BOOLEAN, xp \in 1..2}

InitShape ==
    /\ Unbuilt
    /\ params \in ShapeParams
    /\ call \in {[op |-> "new", matrix |-> TestMat(MaxSeed, r, c, params.complex_matrix),
                  empty_matrix |-> FALSE] : r \in MatDims, c \in MatDims}

NextShape ==
    \/ Construct
    \/ MatVecAny
    \/ VecMatAny
    \/ MatMatAny
    \/ RMatMatAny
    \/ DotAny
    \/ RDotAny
    \/ MatMultivec

SpecShape == InitShape /\ [][NextShape]_vars

(***************************************************************************)
(* Specification of construction from a params object or a params list.    *)
(***************************************************************************)
ParamsLists == {None} \cup {Some(k) : k \in 0..MaxList}
ListParams ==
    {[BaseParams EXCEPT !.complex_matrix = cm, !.rows_max = a, !.cols_max = b] :
        cm \in BOOLEAN, a \in 0..MaxCoreDim, b \in 0..MaxCoreDim}

InitList ==
    /\ Unbuilt
    /\ params \in ListParams
    /\ call \in {[op |-> "new", matrix |-> TestMat(1, r, c, FALSE),
                  empty_matrix |-> e, plist |-> pl] :
                    r \in 1..MaxDim, c \in 1..MaxDim, e \in BOOLEAN, pl \in ParamsLists}

NextList == ConstructList

SpecList == InitList /\ [][NextList]_vars

(***************************************************************************)
(* Specification of sequences of writes: construction, then up to          *)
(* MaxSeqWrites full and partial writes.  call.last_full remembers the     *)
(* matrix of the most recent write that set_matrix handled as a full one   *)
(* (at first the matrix the instance was constructed from).                *)
(***************************************************************************)
LastFull == IF call.op = "init" THEN call.matrix ELSE call.last_full

\* a mask for set_matrix(matrix, error_mask = (rslice, cslice))
SeqMasks ==
    {None, <<Slice(Some(1), Some(3), Some(1)), Slice(Some(0), Some(2), Some(1))>>}
\* index expressions: the full key, a block, a row, a reversed axis
SeqKeys ==
    {[tuple |-> TRUE, items |-> <<SliceItem(FullSlice), SliceItem(FullSlice)>>],
     [tuple |-> TRUE, items |-> <<SliceItem(Slice(Some(1), Some(3), None)),
                                  SliceItem(ReverseSlice)>>],
     [tuple |-> FALSE, items |-> <<IntItem(1)>>],
     [tuple |-> FALSE, items |-> <<SliceItem(ReverseSlice)>>]}

\* set_matrix(M) and set_matrix(M, error_mask)
SeqSetMatrix ==
    /\ Programmed
    /\ writes < MaxSeqWrites
    /\ \E s \in {0, MaxSeed} :
       \E mask \in SeqMasks :
       \E M \in {TestMat(s, shape[1], shape[2], complex_valued(params))} :
       \E r \in {set_matrix(Self, M, mask)} :
         /\ err' = r.err
         /\ cores' = r.cores
         /\ wmin' = r.wmin
         /\ wmax' = r.wmax
         /\ dtype' = r.dtype
         /\ programmed' = IF r.err = "none" THEN M ELSE programmed
         /\ call' = [op |-> "set_matrix", matrix |-> M, error_mask |-> mask,
                     reached |-> TRUE, limits_before |-> <<wmin, wmax>>,
                     last_full |-> IF r.err = "none" /\ IsNone(mask)
                                     THEN M ELSE LastFull]
    /\ writes' = writes + 1
    /\ Frame

\* core[key] = value
SeqSetItem ==
    /\ Programmed
    /\ writes < MaxSeqWrites
    /\ \E key \in SeqKeys :
       \E value \in {TestArr(MaxSeed, NpRank(key), NpShape(key, shape)[1],
                             NpShape(key, shape)[2], complex_valued(params))} :
       \E r \in {setitem(Self, key, value)} :
         /\ err' = r.err
         /\ cores' = r.cores
         /\ wmin' = r.wmin
         /\ wmax' = r.wmax
         /\ dtype' = r.dtype
         /\ programmed' = IF r.reached /\ r.err = "none" THEN r.matrix ELSE programmed
         /\ call' = [op |-> "setitem", matrix |-> r.matrix, error_mask |-> r.error_mask,
                     reached |-> r.reached, limits_before |-> <<wmin, wmax>>,
                     last_full |-> IF r.reached /\ r.err = "none" /\ IsNone(r.error_mask)
                                     THEN r.matrix ELSE LastFull]
    /\ writes' = writes + 1
    /\ Frame

SeqParams ==
    {[BaseParams EXCEPT !.complex_matrix = cm, !.rows_max = a, !.cols_max = a,
                        !.weight_clipping = m[1], !.weights_min = m[2],
                        !.weights_max = m[3], !.weights_percentile = m[4]] :
        cm \in BOOLEAN, a \in {0, 2}, m \in ClipModes}

InitSeq ==
    /\ Unbuilt
    /\ params \in SeqParams
    /\ call \in {[op |-> "new", matrix |-> TestMat(1, r, c, params.complex_matrix),
                  empty_matrix |-> FALSE] : r \in MatDims, c \in MatDims}

NextSeq ==
    \/ Construct
    \/ SeqSetMatrix
    \/ SeqSetItem

SpecSeq == InitSeq /\ [][NextSeq]_vars

(***************************************************************************)
(* Views: TransposedCore lines 972-1018 and MaskedCore lines 1027-1103.    *)
(* A view is named by the wrappers applied to the AnalogCore, innermost    *)
(* first: << >> is the core itself, the parent of a view is the view       *)
(* without its last wrapper.  Every view reads and writes the one set of   *)
(* cells of the core.                                                      *)
(***************************************************************************)
TWrap == [k |-> "T", rslice |-> FullSlice, cslice |-> FullSlice, flatten |-> FALSE]
MWrap(rs, cs, fl) == [k |-> "M", rslice |-> rs, cslice |-> cs, flatten |-> fl]
Top(h) == h[Len(h)]
Parent(h) == SubSeq(h, 1, Len(h) - 1)

\* ndim, lines 977 and 1040-1043
v_ndim(h) == IF h # <<>> /\ Top(h).k = "M" /\ Top(h).flatten THEN 1 ELSE 2

\* shape, lines 976 and 1033-1043, of a view whose parent is 2-D
RECURSIVE v_shape(_, _)
v_shape(self, h) ==
    IF h = <<>> THEN self.shape
    ELSE LET p == v_shape(self, Parent(h))
         IN  IF Top(h).k = "T" THEN <<p[2], p[1]>>
             ELSE LET rows == SelLen(Top(h).rslice, p[1])
                      cols == SelLen(Top(h).cslice, p[2])
                  IN  IF Top(h).flatten THEN <<Max2(rows, cols)>> ELSE <<rows, cols>>

\* the cores property, lines 992-994 and 1050-1052: the parent's cells
v_cores(self, h) == self.cores

\* TransposedCore.transpose handing out a new wrapper instead of its parent
v_transpose_mut(h) ==
    IF h = <<>> THEN Append(h, TWrap)
    ELSE IF Top(h).k = "T" THEN Append(h, TWrap)
    ELSE IF v_ndim(h) = 1 THEN h
    ELSE Append(h, TWrap)

\* transpose, lines 797-798, 996-997 and 1054-1059
v_transpose(h) ==
    IF h = <<>> THEN Append(h, TWrap)
    ELSE IF Top(h).k = "T" THEN Parent(h)
    ELSE IF v_ndim(h) = 1 THEN h
    ELSE Append(h, TWrap)

\* __getitem__, lines 802-806, on a 2-D view
v_getitem(self, h, item) ==
    LET m == create_mask(item, v_shape(self, h))
    IN  IF m.err # "none" THEN [err |-> m.err, view |-> h]
        ELSE IF m.full_mask THEN [err |-> "none", view |-> h]
        ELSE [err |-> "none",
              view |-> Append(h, MWrap(m.rslice, m.cslice, m.flatten))]

\* ndarray.T of a 2-D array
TransposeMat(M) ==
    LMat(M.nc, M.nr, [j \in 0..M.nc-1 |-> [i \in 0..M.nr-1 |-> M.re[i][j]]],
         [j \in 0..M.nc-1 |-> [i \in 0..M.nr-1 |-> M.im[i][j]]], M.cplx)

\* v[s] and m[s] (rows) and m[:, s] (columns)
SliceVec(v, s) ==
    LET sel == Selected(s, v.n)
        L == SelLen(s, v.n)
    IN  LVec(L, [k \in 0..L-1 |-> v.re[sel[k]]], [k \in 0..L-1 |-> v.im[sel[k]]],
             v.cplx)
SliceRows(M, s) == ArrMat(GetSlices(M, s, FullSlice))
SliceCols(M, s) == ArrMat(GetSlices(M, FullSlice, s))

\* zeros(n, dtype = x.dtype) with v[s] = x: x has one entry, broadcast, or as
\* many entries as s selects
EmbedVec(x, s, n) ==
    LET sel == Selected(s, n)
        L == SelLen(s, n)
        at(i) == IF x.n = 1 THEN 0 ELSE PosIn(sel, L, i)
        hit(i) == \E k \in 0..L-1 : sel[k] = i
    IN  LVec(n, [i \in 0..n-1 |-> IF hit(i) THEN x.re[at(i)] ELSE 0],
             [i \in 0..n-1 |-> IF hit(i) THEN x.im[at(i)] ELSE 0], x.cplx)

\* lines 1084-1086: zeros((n, X.shape[1])) with row i, the k-th index s
\* selects, set to X[k]
EmbedRows(X, s, n) ==
    LET sel == Selected(s, n)
        L == SelLen(s, n)
        hit(i) == \E k \in 0..L-1 : sel[k] = i
    IN  LMat(n, X.nc,
             [i \in 0..n-1 |-> IF hit(i) THEN X.re[PosIn(sel, L, i)]
                                        ELSE [j \in 0..X.nc-1 |-> 0]],
             [i \in 0..n-1 |-> IF hit(i) THEN X.im[PosIn(sel, L, i)]
                                        ELSE [j \in 0..X.nc-1 |-> 0]],
             X.cplx)

\* the outcome of the embedding loops, lines 1085-1086 and 1098-1099, for an
\* operand with `have` rows (columns): the step of the slice of an integer
\* component is None, and an operand that is too short is indexed past its end
EmbedErr(s, n, have) ==
    IF SelLen(s, n) = 0 THEN "none"
    ELSE IF IsNone(s.step) THEN "TypeError"
    ELSE IF SelLen(s, n) > have THEN "IndexError"
    ELSE "none"

RECURSIVE v_get_matrix(_, _)
\* get_matrix, lines 439-467, 1001-1002 and 1063-1067
v_get_matrix(self, h) ==
    IF h = <<>> THEN MatArr(get_matrix(self))
    ELSE IF Top(h).k = "T"
      THEN MatArr(TransposeMat(ArrMat(v_get_matrix(self, Parent(h)))))
    ELSE IF Top(h).flatten
      THEN Flatten(GetSlices(ArrMat(v_get_matrix(self, Parent(h))),
                             Top(h).rslice, FullSlice))
    ELSE GetSlices(ArrMat(v_get_matrix(self, Parent(h))),
                   Top(h).rslice, Top(h).cslice)

RECURSIVE v_set_matrix_call(_, _, _, _)
\* set_matrix of a view, lines 1004-1006 and 1069-1072: the arguments with
\* which AnalogCore.set_matrix is reached
v_set_matrix_call(self, h, matrix, error_mask) ==
    IF h = <<>> THEN [matrix |-> matrix, error_mask |-> error_mask]
    ELSE IF Top(h).k = "T"
      THEN v_set_matrix_call(self, Parent(h), TransposeMat(matrix), error_mask)
    ELSE v_set_matrix_call(self, Parent(h),
                           SetSlices(ArrMat(v_get_matrix(self, Parent(h))),
                                     Top(h).rslice, Top(h).cslice, MatArr(matrix)),
                           <<Top(h).rslice, Top(h).cslice>>)

\* set_matrix, lines 296-437, 1004-1006 and 1069-1072
v_set_matrix(self, h, matrix, error_mask) ==
    LET a == v_set_matrix_call(self, h, matrix, error_mask)
    IN  set_matrix(self, a.matrix, a.error_mask)

\* view[key] = value, lines 808-813 on a 2-D view: the call that reaches
\* AnalogCore.set_matrix, and the mask in the coordinates of the view
v_setitem(self, h, key, value) ==
    LET shp == v_shape(self, h)
        m == create_mask(key, shp)
        none == [err |-> "none", reached |-> FALSE, matrix |-> NoMat,
                 error_mask |-> None, view_mask |-> None, expanded |-> NoMat]
    IN  IF m.err # "none" THEN [none EXCEPT !.err = m.err]
        ELSE IF ~Broadcastable(value, SelLen(m.rslice, shp[1]), SelLen(m.cslice, shp[2]))
          THEN [none EXCEPT !.err = "ValueError"]
        ELSE
          LET expanded_mat == SetSlices(ArrMat(v_get_matrix(self, h)),
                                        m.rslice, m.cslice, value)
              error_mask == IF m.full_mask THEN None ELSE <<m.rslice, m.cslice>>
              a == v_set_matrix_call(self, h, expanded_mat, error_mask)
          IN  [err |-> "none", reached |-> TRUE, matrix |-> a.matrix,
               error_mask |-> a.error_mask, view_mask |-> error_mask,
               expanded |-> expanded_mat]

RECURSIVE v_matvec(_, _, _)
RECURSIVE v_vecmat(_, _, _)
RECURSIVE v_matmat(_, _, _)
RECURSIVE v_rmatmat(_, _, _)
\* matvec, lines 469-527, 1008-1009 and 1074-1079
v_matvec(self, h, other) ==
    IF h = <<>> THEN matvec(self, other, FALSE)
    ELSE IF Top(h).k = "T" THEN v_vecmat(self, Parent(h), other)
    ELSE LET n == v_shape(self, Parent(h))[2]
         IN  IF other.n \notin {1, SelLen(Top(h).cslice, n)}
               THEN [err |-> "ValueError", out |-> NoVec]
               ELSE LET r == v_matvec(self, Parent(h),
                                      EmbedVec(other, Top(h).cslice, n))
                    IN  IF r.err # "none" THEN r
                        ELSE [err |-> "none", out |-> SliceVec(r.out, Top(h).rslice)]

\* vecmat, lines 578-626, 1014-1015 and 1090-1095
v_vecmat(self, h, other) ==
    IF h = <<>> THEN vecmat(self, other)
    ELSE IF Top(h).k = "T" THEN v_matvec(self, Parent(h), other)
    ELSE LET n == v_shape(self, Parent(h))[1]
         IN  IF other.n \notin {1, SelLen(Top(h).rslice, n)}
               THEN [err |-> "ValueError", out |-> NoVec]
               ELSE LET r == v_vecmat(self, Parent(h),
                                      EmbedVec(other, Top(h).rslice, n))
                    IN  IF r.err # "none" THEN r
                        ELSE [err |-> "none", out |-> SliceVec(r.out, Top(h).cslice)]

\* matmat, lines 529-576, 1011-1012 and 1081-1088
v_matmat(self, h, other) ==
    IF h = <<>> THEN matmat(self, other)
    ELSE IF Top(h).k = "T"
      THEN LET r == v_rmatmat(self, Parent(h), TransposeMat(other))
           IN  IF r.err # "none" THEN r
               ELSE [err |-> "none", out |-> TransposeMat(r.out)]
    ELSE LET n == v_shape(self, Parent(h))[2]
             e == EmbedErr(Top(h).cslice, n, other.nr)
         IN  IF e # "none" THEN [err |-> e, out |-> NoMat]
             ELSE LET r == v_matmat(self, Parent(h),
                                    EmbedRows(other, Top(h).cslice, n))
                  IN  IF r.err # "none" THEN r
                      ELSE [err |-> "none", out |-> SliceRows(r.out, Top(h).rslice)]

\* rmatmat, lines 628-675, 1017-1018 and 1097-1103
v_rmatmat(self, h, other) ==
    IF h = <<>> THEN rmatmat(self, other)
    ELSE IF Top(h).k = "T"
      THEN LET r == v_matmat(self, Parent(h), TransposeMat(other))
           IN  IF r.err # "none" THEN r
               ELSE [err |-> "none", out |-> TransposeMat(r.out)]
    ELSE LET n == v_shape(self, Parent(h))[1]
             e == EmbedErr(Top(h).rslice, n, other.nc)
         IN  IF e # "none" THEN [err |-> e, out |-> NoMat]
             ELSE LET r == v_rmatmat(self, Parent(h),
                            TransposeMat(EmbedRows(TransposeMat(other),
                                                   Top(h).rslice, n)))
                  IN  IF r.err # "none" THEN r
                      ELSE [err |-> "none", out |-> SliceCols(r.out, Top(h).cslice)]

(***************************************************************************)
(* Views of a programmed instance: core.T, core[rs, cs], their transposes, *)
(* and the multiplies of a 2-D masked view.                                *)
(***************************************************************************)
\* index expressions made of slices only, of positive and of negative step:
\* core[key] is a 2-D view
ViewSlices ==
    {SliceItem(ReverseSlice), SliceItem(Slice(Some(1), Some(3), None)),
     SliceItem(Slice(Some(3), Some(1), Some(0 - 1))),
     SliceItem(Slice(None, None, Some(2)))}
SliceKeys ==
    {[tuple |-> TRUE, items |-> <<a, b>>] : a \in ViewSlices, b \in ViewSlices}
    \cup {[tuple |-> FALSE, items |-> <<SliceItem(Slice(Some(1), Some(3), None))>>]}

\* the core, some of its masked views (2-D, 1-D, and the full key, which gives
\* the core itself), and the transposes of these
TransposeKeys ==
    {[tuple |-> TRUE, items |-> <<SliceItem(Slice(Some(1), Some(3), None)),
                                  SliceItem(ReverseSlice)>>],
     [tuple |-> FALSE, items |-> <<SliceItem(Slice(None, None, Some(2)))>>],
     [tuple |-> TRUE, items |-> <<IntItem(1), SliceItem(FullSlice)>>],
     [tuple |-> TRUE, items |-> <<SliceItem(FullSlice), SliceItem(FullSlice)>>]}
MaskedViews(self) == {v_getitem(self, <<>>, key).view : key \in TransposeKeys}
Handles(self) ==
    {<<>>} \cup MaskedViews(self) \cup {v_transpose(h) : h \in MaskedViews(self) \cup {<<>>}}

\* obj.T.T
ViewTranspose ==
    /\ Programmed
    /\ \E obj \in Handles(Self) :
       \E t \in {v_transpose(obj)} :
       \E tt \in {v_transpose(t)} :
         /\ err' = "none"
         /\ call' = [op |-> "transpose", obj |-> obj, t |-> t, tt |-> tt]
    /\ ReadOnly

\* core[key].matvec(x), x as long as M[key] has columns
ViewMatVec ==
    /\ Programmed
    /\ \E key \in SliceKeys :
       \E g \in {v_getitem(Self, <<>>, key)} :
       \E x \in {TestVec(1, NpLen(KeyItems(key)[2], shape[2]), complex_valued(params))} :
       \E r \in {v_matvec(Self, g.view, x)} :
         /\ g.err = "none"
         /\ err' = r.err
         /\ call' = [op |-> "view_matvec", key |-> key, view |-> g.view,
                     x |-> VecArr(x), out |-> VecArr(r.out)]
    /\ ReadOnly

\* core[key].vecmat(y), y as long as M[key] has rows
ViewVecMat ==
    /\ Programmed
    /\ \E key \in SliceKeys :
       \E g \in {v_getitem(Self, <<>>, key)} :
       \E x \in {TestVec(1, NpLen(KeyItems(key)[1], shape[1]), complex_valued(params))} :
       \E r \in {v_vecmat(Self, g.view, x)} :
         /\ g.err = "none"
         /\ err' = r.err
         /\ call' = [op |-> "view_vecmat", key |-> key, view |-> g.view,
                     x |-> VecArr(x), out |-> VecArr(r.out)]
    /\ ReadOnly

\* core[key].matmat(X), X with two columns
ViewMatMat ==
    /\ Programmed
    /\ \E key \in SliceKeys :
       \E g \in {v_getitem(Self, <<>>, key)} :
       \E x \in {TestMat(1, NpLen(KeyItems(key)[2], shape[2]), 2,
                         complex_valued(params))} :
       \E r \in {v_matmat(Self, g.view, x)} :
         /\ g.err = "none"
         /\ err' = r.err
         /\ call' = [op |-> "view_matmat", key |-> key, view |-> g.view,
                     x |-> MatArr(x), out |-> MatArr(r.out)]
    /\ ReadOnly

\* core[key].rmatmat(Y), Y with two rows
ViewRMatMat ==
    /\ Programmed
    /\ \E key \in SliceKeys :
       \E g \in {v_getitem(Self, <<>>, key)} :
       \E x \in {TestMat(1, 2, NpLen(KeyItems(key)[1], shape[1]),
                         complex_valued(params))} :
       \E r \in {v_rmatmat(Self, g.view, x)} :
         /\ g.err = "none"
         /\ err' = r.err
         /\ call' = [op |-> "view_rmatmat", key |-> key, view |-> g.view,
                     x |-> MatArr(x), out |-> MatArr(r.out)]
    /\ ReadOnly

ViewParams ==
    {[BaseParams EXCEPT !.complex_matrix = cm, !.rows_max = a, !.cols_max = a] :
        cm \in BOOLEAN, a \in CoreMaxima}

InitView ==
    /\ Unbuilt
    /\ params \in ViewParams
    /\ call \in {[op |-> "new", matrix |-> TestMat(1, r, c, params.complex_matrix),
                  empty_matrix |-> FALSE] : r \in MatDims, c \in MatDims}

NextView ==
    \/ Construct
    \/ ViewTranspose
    \/ ViewMatVec
    \/ ViewVecMat
    \/ ViewMatMat
    \/ ViewRMatMat

SpecView == InitView /\ [][NextView]_vars

(***************************************************************************)
(* Specification of indexing: construction, then core[key] for index       *)
(* expressions numpy accepts on an array of the instance's shape.          *)
(***************************************************************************)
\* integers and slices: positive and negative, with and without start / stop
MaskComponents ==
    {IntItem(0), IntItem(1), IntItem(0 - 1), IntItem(0 - 2),
     SliceItem(FullSlice), SliceItem(ReverseSlice),
     SliceItem(Slice(Some(1), Some(3), None)),
     SliceItem(Slice(Some(3), Some(1), Some(0 - 1))),
     SliceItem(Slice(None, None, Some(2))),
     SliceItem(Slice(Some(0 - 1), None, Some(0 - 2)))}
\* an integer index numpy accepts on an axis of length n
IntInRange(it, n) == it.kind = "int" => (it.v < n /\ it.v >= 0 - n)
MaskKeys(shp) ==
    {[tuple |-> FALSE, items |-> <<a>>] :
        a \in {q \in MaskComponents : IntInRange(q, shp[1])}}
    \cup {[tuple |-> TRUE, items |-> <<a, b>>] :
            a \in {q \in MaskComponents : IntInRange(q, shp[1])},
            b \in {q \in MaskComponents : IntInRange(q, shp[2])}}

\* core[key], lines 802-806: _create_mask and the view it gives
GetItem ==
    /\ Programmed
    /\ \E key \in MaskKeys(shape) :
       \E m \in {create_mask(key, shape)} :
       \E g \in {v_getitem(Self, <<>>, key)} :
         /\ err' = m.err
         /\ call' = [op |-> "getitem", key |-> key, rslice |-> m.rslice,
                     cslice |-> m.cslice, full_mask |-> m.full_mask,
                     flatten |-> m.flatten, view |-> g.view]
    /\ ReadOnly

MaskParams ==
    {[BaseParams EXCEPT !.rows_max = a, !.cols_max = a] : a \in {0, 2}}

InitMask ==
    /\ Unbuilt
    /\ params \in MaskParams
    /\ call \in {[op |-> "new", matrix |-> TestMat(1, r, c, FALSE),
                  empty_matrix |-> FALSE] : r \in 1..MaxDim, c \in 1..MaxDim}

NextMask ==
    \/ Construct
    \/ GetItem

SpecMask == InitMask /\ [][NextMask]_vars

(***************************************************************************)
(* Specification of writes through a transposed view: construction, then   *)
(* core.T[key] = value or core.T[key].set_matrix(X).                       *)
(***************************************************************************)
TKeyComponents ==
    {IntItem(1), SliceItem(FullSlice), SliceItem(Slice(Some(1), Some(3), None)),
     SliceItem(Slice(None, None, Some(2))), SliceItem(Slice(Some(2), None, None))}
TKeys == {[tuple |-> TRUE, items |-> <<a, b>>] : a \in TKeyComponents, b \in TKeyComponents}
TShape == <<shape[2], shape[1]>>

\* core.T[key] = value
TSetItem ==
    /\ Programmed
    /\ writes < MaxWrites
    /\ \E key \in TKeys :
       \E value \in {TestArr(MaxSeed, NpRank(key), NpShape(key, TShape)[1],
                             NpShape(key, TShape)[2], complex_valued(params))} :
       \E a \in {v_setitem(Self, <<TWrap>>, key, value)} :
       \E r \in {IF a.reached THEN set_matrix(Self, a.matrix, a.error_mask)
                 ELSE [err |-> a.err, cores |-> cores, wmin |-> wmin, wmax |-> wmax,
                       dtype |-> dtype, warned |-> FALSE]} :
         /\ err' = r.err
         /\ cores' = r.cores
         /\ wmin' = r.wmin
         /\ wmax' = r.wmax
         /\ dtype' = r.dtype
         /\ programmed' = IF a.reached /\ r.err = "none" THEN a.matrix ELSE programmed
         /\ call' = [op |-> "t_setitem", key |-> key, reached |-> a.reached,
                     matrix |-> a.matrix, error_mask |-> a.error_mask,
                     view_mask |-> a.view_mask, expanded |-> a.expanded]
    /\ writes' = writes + 1
    /\ Frame

\* core.T[key].set_matrix(X) for a key of slices (a 2-D masked view of core.T)
TViewSetMatrix ==
    /\ Programmed
    /\ writes < MaxWrites
    /\ \E key \in {q \in TKeys : NpRank(q) = 2} :
       \E g \in {v_getitem(Self, <<TWrap>>, key)} :
       \E X \in {TestMat(MaxSeed, NpShape(key, TShape)[1], NpShape(key, TShape)[2],
                         complex_valued(params))} :
       \E a \in {v_set_matrix_call(Self, g.view, X,  None)} :
       \E r \in {set_matrix(Self, a.matrix, a.error_mask)} :
         /\ g.err = "none"
         /\ g.view # <<TWrap>>
         /\ err' = r.err
         /\ cores' = r.cores
         /\ wmin' = r.wmin
         /\ wmax' = r.wmax
         /\ dtype' = r.dtype
         /\ programmed' = IF r.err = "none" THEN a.matrix ELSE programmed
         /\ call' = [op |-> "t_view_set_matrix", key |-> key, reached |-> TRUE,
                     matrix |-> a.matrix, error_mask |-> a.error_mask,
                     view_mask |-> <<Top(g.view).rslice, Top(g.view).cslice>>,
                     expanded |-> SetSlices(TransposeMat(programmed),
                                            Top(g.view).rslice, Top(g.view).cslice,
                                            MatArr(X))]
    /\ writes' = writes + 1
    /\ Frame

TWriteParams ==
    {[BaseParams EXCEPT !.complex_matrix = cm, !.rows_max = a, !.cols_max = a] :
        cm \in BOOLEAN, a \in {0, 2}}

InitTWrite ==
    /\ Unbuilt
    /\ params \in TWriteParams
    /\ call \in {[op |-> "new", matrix |-> TestMat(1, r, c, params.complex_matrix),
                  empty_matrix |-> FALSE] : r \in MatDims, c \in MatDims}

NextTWrite ==
    \/ Construct
    \/ TSetItem
    \/ TViewSetMatrix

SpecTWrite == InitTWrite /\ [][NextTWrite]_vars

(***************************************************************************)
(* Properties of the partition planner.                                    *)
(***************************************************************************)
MultiCoreBuilt == pc = "ready" /\ Ncores > 1

\* bounds b of count partitions tile 0..dim-1 in order, none of them empty
Tiles(b, count, dim) ==
    /\ count >= 1
    /\ b[0][2] = 0
    /\ b[count - 1][3] = dim
    /\ \A k \in 0..count-1 : b[k][1] = k /\ b[k][2] < b[k][3]
    /\ \A k \in 0..count-2 : b[k][3] = b[k + 1][2]
    /\ SumF([k \in 0..count-1 |-> b[k][3] - b[k][2]], 0, count) = dim

\* C1: in every multi-core construction that completes, row_partition_bounds
\* and col_partition_bounds are ordered (index, start, end) triples that start
\* at 0, are contiguous, have no empty partition and end at the encoded
\* dimension, so the sizes sum to the encoded dimension.
C1_PartitionCoverage ==
    MultiCoreBuilt =>
        /\ Tiles(row_partition_bounds, num_cores_row, EncDim(params, shape[1]))
        /\ Tiles(col_partition_bounds, num_cores_col, EncDim(params, shape[2]))

\* a multi-core construction with a remainder on both axes, EVEN on the rows
C1_Witness ==
    /\ MultiCoreBuilt
    /\ nrow % num_cores_row # 0
    /\ ncol % num_cores_col # 0
    /\ params.row_partition_strategy = "EVEN"
    /\ num_cores_row > 2

\* C2: in every multi-core construction, for both strategies, every partition
\* size of an axis, the last included, is at most the per-core maximum that
\* determined the partition count of that axis (cols_max for the rows,
\* rows_max for the columns).
C2_SizeWithinMax ==
    MultiCoreBuilt =>
        /\ params.cols_max > 0 =>
             \A r \in 0..num_cores_row-1 : NrowsVec[r] <= params.cols_max
        /\ params.rows_max > 0 =>
             \A c \in 0..num_cores_col-1 : NcolsVec[c] <= params.rows_max

\* C3: a per-core maximum of 0 leaves its axis unbounded: construction
\* completes for every combination of the two maxima, and the axis whose
\* maximum is 0 gets one partition spanning the whole encoded dimension.
C3_ZeroMaxUnbounded ==
    (/\ pc # "new"
     /\ shape[1] > 1 /\ shape[2] > 1
     /\ params.row_partition_priority = <<>>
     /\ params.col_partition_priority = <<>>
     /\ (params.rows_max = 0 \/ params.cols_max = 0)) =>
        /\ pc = "ready"
        /\ params.cols_max = 0 => num_cores_row = 1 /\ NrowsVec[0] = EncDim(params, shape[1])
        /\ params.rows_max = 0 => num_cores_col = 1 /\ NcolsVec[0] = EncDim(params, shape[2])

\* axis_size % (max_dim / d) == 0 for some configured divisor d
PrioDivides(n, maxdim, prio) ==
    \E k \in 1..Len(prio) : (n * prio[k]) % maxdim = 0

\* C4: in a multi-core construction where the row count does not divide
\* evenly by its partition count and some priority divisor d satisfies
\* nrow % (max_dim / d) == 0, construction completes with every row
\* partition but the last of size max_dim and the last holding the rest.
C4_PriorityPartition ==
    LET n == EncDim(params, shape[1])
        count == (n - 1) \div params.cols_max + 1
    IN  (/\ pc # "new"
         /\ shape[1] > 1 /\ shape[2] > 1
         /\ params.rows_max > 0 /\ params.cols_max > 0
         /\ Ncores > 1
         /\ n % count # 0
         /\ PrioDivides(n, params.cols_max, params.row_partition_priority)) =>
            /\ pc = "ready"
            /\ \A k \in 0..count-2 : NrowsVec[k] = params.cols_max
            /\ NrowsVec[count - 1] = n - (count - 1) * params.cols_max

(***************************************************************************)
(* Properties of the multiplies.  The reference products are computed on   *)
(* the logical (complex) matrix, with no encoding and no partitioning.     *)
(***************************************************************************)
\* A @ B for 2-D complex operands
MatMul(A, B) ==
    Arr(2, A.nr, B.nc,
        [i \in 0..A.nr-1 |-> [q \in 0..B.nc-1 |->
           SumF([k \in 0..A.nc-1 |-> A.re[i][k] * B.re[k][q] - A.im[i][k] * B.im[k][q]],
                0, A.nc)]],
        [i \in 0..A.nr-1 |-> [q \in 0..B.nc-1 |->
           SumF([k \in 0..A.nc-1 |-> A.re[i][k] * B.im[k][q] + A.im[i][k] * B.re[k][q]],
                0, A.nc)]],
        TRUE)

\* a 1-D operand as a column
AsCol(x) == Arr(2, x.nc, 1, [k \in 0..x.nc-1 |-> [z \in 0..0 |-> x.re[0][k]]],
                [k \in 0..x.nc-1 |-> [z \in 0..0 |-> x.im[0][k]]], x.cplx)
\* a one-column 2-D result as a 1-D array
ColAsVec(a) == Arr(1, 1, a.nr, [z \in 0..0 |-> [k \in 0..a.nr-1 |-> a.re[k][0]]],
                   [z \in 0..0 |-> [k \in 0..a.nr-1 |-> a.im[k][0]]], a.cplx)
AsRow(x) == Arr(2, 1, x.nc, x.re, x.im, x.cplx)
RowAsVec(a) == Arr(1, 1, a.nc, a.re, a.im, a.cplx)

\* M @ x and x @ M as numpy computes them for a 1-D or 2-D x
ForwardProduct(M, x) ==
    IF x.ndim = 1 THEN ColAsVec(MatMul(MatArr(M), AsCol(x))) ELSE MatMul(MatArr(M), x)
ReverseProduct(M, x) ==
    IF x.ndim = 1 THEN RowAsVec(MatMul(AsRow(x), MatArr(M))) ELSE MatMul(x, MatArr(M))

\* same rank, shape and values
SameValues(a, b) ==
    /\ a.ndim = b.ndim
    /\ a.nr = b.nr
    /\ a.nc = b.nc
    /\ a.re = b.re
    /\ a.im = b.im

ForwardOps == {"matvec", "matmat", "dot"}
ReverseOps == {"vecmat", "rmatmat", "rdot"}

C6_ComplexMultiply ==
    (Programmed /\ complex_valued(params)) =>
        /\ call.op \in {"matvec", "matmat"} =>
             err = "none" /\ SameValues(call.out, ForwardProduct(programmed, call.x))
        /\ call.op \in {"vecmat", "rmatmat"} =>
             err = "none" /\ SameValues(call.out, ReverseProduct(programmed, call.x))

\* a complex rmatmat over more than one row and column partition, with a
\* result that has a non-zero imaginary part
C6_Witness ==
    /\ Programmed
    /\ complex_valued(params)
    /\ num_cores_row > 1 /\ num_cores_col > 1
    /\ call.op = "rmatmat"
    /\ call.x.cplx
    /\ \E i \in 0..call.out.nr-1 : \E j \in 0..call.out.nc-1 : call.out.im[i][j] # 0

(***************************************************************************)
(* Properties of the writes.                                               *)
(***************************************************************************)
SameLogical(A, B) == A.nr = B.nr /\ A.nc = B.nc /\ A.re = B.re /\ A.im = B.im

\* C7: with clipping inactive and cores that store what they are given,
\* set_matrix(M) followed by get_matrix() returns M, for a real M and for a
\* complex M on a complex instance, for every partitioning.
C7_SetGetRoundTrip ==
    (/\ Programmed
     /\ call.op \in {"init", "set_matrix"}
     /\ err = "none"
     /\ ~params.weight_clipping) =>
        SameLogical(get_matrix(Self), call.matrix)

\* a complex matrix written by set_matrix over several row and column cells
C7_Witness ==
    /\ Programmed
    /\ call.op = "set_matrix"
    /\ err = "none"
    /\ ~params.weight_clipping
    /\ call.matrix.cplx
    /\ num_cores_row > 1 /\ num_cores_col > 1
    /\ call.matrix # call.before
    /\ \E i \in 0..shape[1]-1 : \E j \in 0..shape[2]-1 : call.matrix.im[i][j] # 0

\* a[key] as numpy returns it
NpGet(M, key) ==
    LET its == KeyItems(key)
        rows == NpSel(its[1], M.nr)
        cols == NpSel(its[2], M.nc)
        R == NpLen(its[1], M.nr)
        C == NpLen(its[2], M.nc)
    IN  IF its[2].kind = "int" /\ its[1].kind = "slice"
          THEN Arr(1, 1, R, [z \in 0..0 |-> [k \in 0..R-1 |-> M.re[rows[k]][cols[0]]]],
                   [z \in 0..0 |-> [k \in 0..R-1 |-> M.im[rows[k]][cols[0]]]], M.cplx)
          ELSE Arr(NpRank(key), R, C,
                   [i \in 0..R-1 |-> [j \in 0..C-1 |-> M.re[rows[i]][cols[j]]]],
                   [i \in 0..R-1 |-> [j \in 0..C-1 |-> M.im[rows[i]][cols[j]]]], M.cplx)

\* every real and imaginary part of v lies in [lo, hi], and so does its negation
InRange(v, lo, hi) ==
    \A i \in 0..v.nr-1 : \A j \in 0..v.nc-1 :
        /\ lo <= v.re[i][j] /\ v.re[i][j] <= hi
        /\ lo <= v.im[i][j] /\ v.im[i][j] <= hi
        /\ lo <= 0 - v.im[i][j] /\ 0 - v.im[i][j] <= hi

\* an integer, a positive-step slice, or the open-ended negative-step slice
RoundTripItem(it) ==
    \/ it.kind = "int"
    \/ it.kind = "slice" /\ (IsNone(it.s.step) \/ Val(it.s.step) > 0)
    \/ it = SliceItem(ReverseSlice)

\* C8: core[idx] = X followed by core[idx].get_matrix(), or by get_matrix() of
\* the parent read at the same coordinates, yields X, for positive-step
\* slices, negative-step slices and integer indices on either axis, with
\* in-range values.
C8_MaskedRoundTrip ==
    (/\ call.op = "setitem"
     /\ \A k \in 1..Len(call.key.items) : RoundTripItem(call.key.items[k])
     /\ InRange(call.value, call.wmin, call.wmax)) =>
        /\ err = "none"
        /\ SameValues(getitem_get_matrix(Self, call.key).out, call.value)
        /\ SameValues(NpGet(get_matrix(Self), call.key), call.value)

PositiveSlice(it) == it.kind = "slice" /\ (IsNone(it.s.step) \/ Val(it.s.step) > 0)
\* a pair of positive-step slices that does not address the whole matrix
PartialBlockKey(key, shp) ==
    /\ key.tuple
    /\ PositiveSlice(key.items[1])
    /\ PositiveSlice(key.items[2])
    /\ ~(NpLen(key.items[1], shp[1]) = shp[1] /\ NpLen(key.items[2], shp[2]) = shp[2])

ClipArr(v, lo, hi) ==
    [v EXCEPT !.re = Clip(v.re, v.nr, v.nc, lo, hi), !.im = Clip(v.im, v.nr, v.nc, lo, hi)]

\* C9: after a partial update core[rs, cs] = X, get_matrix() is the previous
\* matrix with the addressed block replaced by X clipped to the established
\* range, every other entry unchanged, for every partitioning.
C9_PartialUpdateFrame ==
    (/\ call.op = "setitem"
     /\ PartialBlockKey(call.key, shape)) =>
        /\ err = "none"
        /\ SameLogical(get_matrix(Self),
                       SetSlices(call.before, call.key.items[1].s, call.key.items[2].s,
                                 ClipArr(call.value, call.wmin, call.wmax)))

\* every component is [:] or [::-1], and at least one is [::-1]
ReverseFullKey(key) ==
    /\ \A k \in 1..Len(key.items) :
         key.items[k] \in {SliceItem(FullSlice), SliceItem(ReverseSlice)}
    /\ \E k \in 1..Len(key.items) : key.items[k] = SliceItem(ReverseSlice)

\* C10 as stated: a write through [::-1] (alone or on both axes) is a
\* full-coverage write, set_matrix being called without an error_mask.
C10_NegStepFullWrite ==
    (call.op = "setitem" /\ ReverseFullKey(call.key)) =>
        call.reached /\ IsNone(call.error_mask)

\* the slice _create_mask returns for a full-axis component on an axis of n
FullAxisSlice(it, n) ==
    IF it = SliceItem(ReverseSlice) THEN Slice(Some(n - 1), None, Some(0 - 1))
                                    ELSE Slice(Some(0), Some(n), Some(1))

\* C10 amended: [::-1] is normalised to slice(n-1, None, -1), which selects
\* every index of the axis, index 0 included, but the write is not flagged as
\* full coverage: set_matrix receives error_mask = (rslice, cslice), the
\* weight bounds are left as they were and no cell is handed weight limits.
C10_NegStepPartialWrite ==
    (call.op = "setitem" /\ ReverseFullKey(call.key)) =>
        LET its == KeyItems(call.key)
        IN  /\ err = "none"
            /\ call.reached
            /\ call.error_mask = <<FullAxisSlice(its[1], shape[1]),
                                   FullAxisSlice(its[2], shape[2])>>
            /\ SelSet(call.error_mask[1], shape[1]) = 0..shape[1]-1
            /\ SelSet(call.error_mask[2], shape[2]) = 0..shape[2]-1
            /\ wmin = call.wmin /\ wmax = call.wmax
            /\ \A r \in 0..num_cores_row-1 : \A c \in 0..num_cores_col-1 :
                 IsNone(cores[r][c].weight_limits)

\* core[::-1, ::-1] = X with X out of range: the partial-update warning fired
C10_Witness ==
    /\ call.op = "setitem"
    /\ call.key = [tuple |-> TRUE, items |-> <<SliceItem(ReverseSlice), SliceItem(ReverseSlice)>>]
    /\ err = "none"
    /\ call.warned
    /\ Ncores > 1

\* some entry of the real matrix m lies outside [lo, hi]
OutOfRange(m, nr, nc, lo, hi) ==
    \E i \in 0..nr-1 : \E j \in 0..nc-1 : m[i][j] < lo \/ m[i][j] > hi

\* every value held by a grid cell lies in [lo, hi]
CellsWithin(lo, hi) ==
    \A r \in 0..num_cores_row-1 : \A c \in 0..num_cores_col-1 :
        ~OutOfRange(cores[r][c].matrix, NrowsVec[r], NcolsVec[c], lo, hi)

\* C11: a partial update (set_matrix with an error_mask) whose matrix has
\* values outside the established weight bounds warns, completes without
\* raising, and hands every grid cell values clipped to the existing bounds.
C11_PartialWarnClip ==
    (/\ call.op = "setitem"
     /\ call.reached
     /\ ~IsNone(call.error_mask)
     /\ ~complex_valued(params)
     /\ OutOfRange(programmed.re, shape[1], shape[2], call.wmin, call.wmax)) =>
        /\ err = "none"
        /\ call.warned
        /\ wmin = call.wmin /\ wmax = call.wmax
        /\ CellsWithin(call.wmin, call.wmax)

\* C13: a set_matrix call that raises a validation error (wrong shape, or a
\* complex matrix on an instance not configured for complex) reprograms no
\* grid cell and leaves dtype and the weight bounds as they were, so
\* get_matrix() returns what it returned before the call.
C13_FailedWriteUnchanged ==
    [][((SetMatrix \/ SetMatrixShape) /\ err' = "ValueError") =>
          /\ UNCHANGED <<cores, wmin, wmax, dtype, programmed>>
          /\ call'.before = get_matrix([Self EXCEPT !.cores = cores', !.dtype = dtype',
                                                    !.wmin = wmin', !.wmax = wmax'])]_vars

\* a multi-core instance rejected a matrix with one row too many
C13_Witness ==
    /\ call.op = "set_matrix"
    /\ err = "ValueError"
    /\ call.matrix.nr = shape[1] + 1
    /\ Ncores > 1
    /\ SameLogical(get_matrix(Self), call.before)

\* the local indices of cell [cell_start, cell_end) that the global mask m,
\* taken on an axis of n entries, selects
ExpectedLocal(m, n, cell_start, cell_end) ==
    {g - cell_start : g \in {x \in SelSet(m, n) : cell_start <= x /\ x < cell_end}}

\* C17: in a partial update on a multi-core instance, the local mask handed to
\* each grid cell selects, on each axis, exactly the local indices
\* g - cell_start of the globally selected g that fall in the cell, for
\* positive-step and negative-step masks.
C17_LocalMaskSelects ==
    (/\ call.op = "setitem"
     /\ call.reached
     /\ ~IsNone(call.error_mask)
     /\ err = "none"
     /\ Ncores > 1
     /\ ~complex_valued(params)) =>
        \A r \in 0..num_cores_row-1 : \A c \in 0..num_cores_col-1 :
            LET rb == row_partition_bounds[r]
                cb == col_partition_bounds[c]
                local == cores[r][c].error_mask
            IN  /\ SelSet(local[1], rb[3] - rb[2])
                     = ExpectedLocal(call.error_mask[1], nrow, rb[2], rb[3])
                /\ SelSet(local[2], cb[3] - cb[2])
                     = ExpectedLocal(call.error_mask[2], ncol, cb[2], cb[3])

\* C14: construction with a params list whose length differs from the number
\* of cores of a multi-core configuration, or with any params list in a
\* single-core configuration, raises ValueError before any physical core is
\* constructed.
C14_ParamsListRejected ==
    (/\ pc # "new"
     /\ ~IsNone(call.plist)
     /\ LET N == NcoresOf(EncDim(params, shape[1]), EncDim(params, shape[2]),
                          params.rows_max, params.cols_max)
        IN  N = 1 \/ Val(call.plist) # N) =>
        /\ err = "ValueError"
        /\ call.made = 0

\* the length of the operand x along the axis a forward (reverse) multiply
\* contracts with the logical columns (rows)
ForwardContracted(x) == IF x.ndim = 1 THEN x.nc ELSE x.nr
ReverseContracted(x) == x.nc

\* C12: every multiply entry point (matvec, vecmat, matmat, rmatmat, and so
\* dot and rdot) raises ValueError, before any cell primitive is invoked, when
\* the operand's contracted dimension differs from the logical columns
\* (forward) or logical rows (reverse); none returns a result.  A call that
\* ends inside a cell handed an input of the wrong size (err = "CellInput")
\* is not counted against the claim here: only a returned result is.
C12_MismatchRejected ==
    (Programmed /\ call.op # "init" /\ call.op # "mat_multivec"
       /\ call.x.ndim \in {1, 2}) =>
        /\ (call.op \in ForwardOps /\ ForwardContracted(call.x) # shape[2]) =>
             err \in {"ValueError", "CellInput"}
        /\ (call.op \in ReverseOps /\ ReverseContracted(call.x) # shape[1]) =>
             err \in {"ValueError", "CellInput"}

\* C15: on a real-valued instance, mat_multivec rejects with ValueError a
\* packed input whose element count differs from Ncopy * logical_cols, in
\* the single-core configuration as well as in the multi-core one, without
\* handing it to a cell.
C15_PackedSizeRejected ==
    (/\ Programmed
     /\ call.op = "mat_multivec"
     /\ ~complex_valued(params)
     /\ call.x.nc # params.x_par * params.y_par * shape[2]) =>
        /\ err = "ValueError"
        /\ ~call.invoked

\* the route the claim gives an operand x of dot (batch size x.nc) or of
\* rdot (batch size x.nr)
ClaimedRoute(x, batch, fast, vec, vecs, mat) ==
    IF x.ndim = 1 \/ (x.ndim = 2 /\ batch = 1) THEN vec
    ELSE IF x.ndim = 2 THEN (IF fast \/ batch = 0 THEN mat ELSE vecs)
    ELSE "none"

\* column q and row q of a 2-D result
OutCol(a, q) == LVec(a.nr, [k \in 0..a.nr-1 |-> a.re[k][q]],
                     [k \in 0..a.nr-1 |-> a.im[k][q]], a.cplx)
OutRow(a, q) == LVec(a.nc, a.re[q], a.im[q], a.cplx)

\* C20: dot routes to matvec exactly for a 1-D or one-column 2-D operand,
\* rdot to vecmat exactly for a 1-D or one-row 2-D operand; any other 2-D
\* operand goes to matmat / rmatmat when fast_matmul is set or the batch
\* dimension is empty, and otherwise to one matvec / vecmat per column / row,
\* in order, the results stacked; any other rank raises ValueError and no
\* multiply is invoked.
C20_DotRouting ==
    /\ (Programmed /\ call.op = "dot") =>
         /\ call.route = ClaimedRoute(call.x, call.x.nc, params.fast_matmul,
                                      "matvec", "matvecs", "matmat")
         /\ call.route = "none" => err = "ValueError"
         /\ (call.route = "matvecs" /\ err = "none") =>
              /\ call.out.ndim = 2 /\ call.out.nc = call.x.nc
              /\ \A q \in 0..call.x.nc-1 :
                   OutCol(call.out, q) = matvec(Self, ColVec(call.x, q), FALSE).out
    /\ (Programmed /\ call.op = "rdot") =>
         /\ call.route = ClaimedRoute(call.x, call.x.nr, params.fast_matmul,
                                      "vecmat", "vecmats", "rmatmat")
         /\ call.route = "none" => err = "ValueError"
         /\ (call.route = "vecmats" /\ err = "none") =>
              /\ call.out.ndim = 2 /\ call.out.nr = call.x.nr
              /\ \A q \in 0..call.x.nr-1 :
                   OutRow(call.out, q) = vecmat(Self, RowVec(call.x, q)).out

\* rdot of a two-row operand on a grid without fast_matmul: two vecmat calls,
\* stacked into a two-row result
C20_Witness ==
    /\ Programmed
    /\ call.op = "rdot"
    /\ Ncores > 1
    /\ ~params.fast_matmul
    /\ call.x.ndim = 2 /\ call.x.nr = 2 /\ call.x.nc = shape[1]
    /\ call.route = "vecmats"
    /\ err = "none"
    /\ call.out.nr = 2 /\ call.out.nc = shape[2]

(***************************************************************************)
(* Properties of the views.                                                *)
(***************************************************************************)
\* get_matrix, set_matrix and the four multiplies give the same outcome on
\* the views a and b
SameOps(self, a, b) ==
    /\ v_get_matrix(self, a) = v_get_matrix(self, b)
    /\ v_ndim(a) = 2 =>
         LET shp == v_shape(self, a)
             cv == complex_valued(self.params)
         IN  /\ v_set_matrix(self, a, TestMat(MaxSeed, shp[1], shp[2], cv), None)
                  = v_set_matrix(self, b, TestMat(MaxSeed, shp[1], shp[2], cv), None)
             /\ v_matvec(self, a, TestVec(1, shp[2], cv))
                  = v_matvec(self, b, TestVec(1, shp[2], cv))
             /\ v_vecmat(self, a, TestVec(1, shp[1], cv))
                  = v_vecmat(self, b, TestVec(1, shp[1], cv))
             /\ v_matmat(self, a, TestMat(1, shp[2], 2, cv))
                  = v_matmat(self, b, TestMat(1, shp[2], 2, cv))
             /\ v_rmatmat(self, a, TestMat(1, 2, shp[1], cv))
                  = v_rmatmat(self, b, TestMat(1, 2, shp[1], cv))

\* C16: obj.T.T is obj itself (transposing a TransposedCore returns the
\* wrapped parent), so get_matrix, set_matrix and the four multiplies on
\* core.T.T are those of core; taking the transpose of the core or of a view
\* changes no cell and no field of the instance, and the transposed view
\* reads the same cells.
C16_TransposeInvolution ==
    [][ViewTranspose =>
        /\ UNCHANGED <<cores, wmin, wmax, dtype, programmed, shape, params>>
        /\ call'.tt = call'.obj
        /\ v_cores(Self, call'.t) = cores'
        /\ SameOps(Self, call'.tt, call'.obj)]_vars

\* core.T.T on a multi-core instance: core.T is a TransposedCore of the core
\* and its transpose is the core; and the same for a 2-D masked view
C16_Witness ==
    /\ Programmed
    /\ Ncores > 1
    /\ call.op = "transpose"
    /\ call.obj = <<>>
    /\ call.t = <<TWrap>>
    /\ call.tt = <<>>
    /\ v_get_matrix(Self, call.t) = MatArr(TransposeMat(programmed))

\* numpy's M[key] for the view the call was made through
ViewExpected(M, key) == ArrMat(NpGet(M, key))

\* C19: for a 2-D masked view V = core[rs, cs], with slices of positive or
\* negative step, V.matvec(x) = M[rs, cs] @ x, V.vecmat(y) = y @ M[rs, cs],
\* V.matmat(X) = M[rs, cs] @ X and V.rmatmat(Y) = Y @ M[rs, cs].
C19_MaskedMultiply ==
    Programmed =>
        /\ call.op \in {"view_matvec", "view_matmat"} =>
             /\ err = "none"
             /\ SameValues(call.out,
                           ForwardProduct(ViewExpected(programmed, call.key), call.x))
        /\ call.op \in {"view_vecmat", "view_rmatmat"} =>
             /\ err = "none"
             /\ SameValues(call.out,
                           ReverseProduct(ViewExpected(programmed, call.key), call.x))

\* C18: after any sequence of full and partial writes the weight bounds are
\* those computed by the most recent full write (percentile estimate if
\* configured, else the fixed configuration); a full write hands them to
\* every cell, a partial write leaves them as they were and hands no weight
\* limits to any cell.
C18_LimitsFromLastFullWrite ==
    Programmed =>
        /\ <<wmin, wmax>> = FullLimits(params, Encode(complex_valued(params), LastFull),
                                       nrow, ncol)
        /\ (call.op \in {"set_matrix", "setitem"} /\ call.reached /\ err = "none") =>
             \A r \in 0..num_cores_row-1 : \A c \in 0..num_cores_col-1 :
                IF IsNone(call.error_mask)
                  THEN cores[r][c].weight_limits = <<wmin, wmax>>
                  ELSE /\ cores[r][c].weight_limits = None
                       /\ <<wmin, wmax>> = call.limits_before

\* a percentile instance on a grid: a full write, then a partial write whose
\* matrix would give other limits; the limits are still those of the full write
C18_Witness ==
    /\ Programmed
    /\ writes = 2
    /\ Ncores > 1
    /\ ~IsNone(params.weights_percentile)
    /\ call.op \in {"set_matrix", "setitem"}
    /\ call.reached /\ err = "none"
    /\ ~IsNone(call.error_mask)
    /\ call.last_full # programmed
    /\ <<wmin, wmax>> # FullLimits(params, Encode(complex_valued(params), programmed),
                                   nrow, ncol)
    /\ \A r \in 0..num_cores_row-1 : \A c \in 0..num_cores_col-1 :
          cores[r][c].weight_limits = None

\* C21: for every index expression numpy accepts on an array of the
\* instance's shape, the slices _create_mask returns select the same rows and
\* columns, in the same order, as numpy indexing does; flatten is true exactly
\* when a component is an integer; full_mask is true only if both slices
\* select every index of their axis.
C21_MaskMatchesNumpy ==
    (Programmed /\ call.op = "getitem") =>
        /\ err = "none"
        /\ Selected(call.rslice, shape[1]) = NpSel(KeyItems(call.key)[1], shape[1])
        /\ Selected(call.cslice, shape[2]) = NpSel(KeyItems(call.key)[2], shape[2])
        /\ call.flatten = (\E k \in 1..Len(call.key.items) :
                              call.key.items[k].kind = "int")
        /\ call.full_mask => /\ SelSet(call.rslice, shape[1]) = 0..shape[1]-1
                             /\ SelSet(call.cslice, shape[2]) = 0..shape[2]-1

\* C22: a partial write made through a transposed view reaches
\* AnalogCore.set_matrix with the matrix transposed and with an error_mask
\* that addresses the same logical elements in the parent's coordinates: its
\* row slice selects what the view's column slice selects, and its column
\* slice what the view's row slice selects.
C22_TransposedMaskSwapped ==
    (/\ Programmed
     /\ call.op \in {"t_setitem", "t_view_set_matrix"}
     /\ call.reached
     /\ ~IsNone(call.view_mask)) =>
        /\ call.matrix = TransposeMat(call.expanded)
        /\ ~IsNone(call.error_mask)
        /\ Selected(call.error_mask[1], shape[1]) = Selected(call.view_mask[2], shape[1])
        /\ Selected(call.error_mask[2], shape[2]) = Selected(call.view_mask[1], shape[2])

\* the cells of the grid
GridCells == (0..num_cores_row-1) \X (0..num_cores_col-1)

\* C23: in a multi-core construction given a list of Ncores params objects
\* the grid holds num_cores_row * num_cores_col = Ncores cells, the index
\* that picks the entry of cell (r, c) is within the list and different for
\* different cells, so every entry configures exactly one cell.
C23_OneEntryPerCell ==
    (pc = "ready" /\ call.op = "init" /\ ~IsNone(call.plist) /\ Ncores > 1) =>
        /\ num_cores_row * num_cores_col = Ncores
        /\ call.made = Ncores
        /\ \A g \in GridCells : call.picked[g[1]][g[2]] \in 0..Val(call.plist)-1
        /\ \A g \in GridCells : \A h \in GridCells :
              g # h => call.picked[g[1]][g[2]] # call.picked[h[1]][h[2]]
        /\ \A k \in 0..Val(call.plist)-1 :
              Cardinality({g \in GridCells : call.picked[g[1]][g[2]] = k}) = 1

====
